---- MODULE Spec2Model ----
(***************************************************************************)
(* Model of the noise-sv2 crate of stratum (protocols/v2/noise-sv2):       *)
(* the Initiator and Responder handshake state machines, the certificate   *)
(* issued by an Authority and verified by the Initiator, and the           *)
(* TransportMode wrapper used once the handshake is over; of the mining    *)
(* message parsers of roles-logic-sv2 (handlers/mining.rs); and of the     *)
(* DownstreamMiningNode of the mining proxy (downstream_mining.rs).        *)
(*                                                                         *)
(* Cryptography is symbolic.  A keypair is an identifier; a signature      *)
(* records its signer and the signed message and verifies under one key    *)
(* for one message only; a handshake message records the ephemeral key it  *)
(* answers, and an encrypted frame records the session, direction and      *)
(* nonce it was sealed under, so that decryption succeeds exactly when the *)
(* receiver derives the same key and nonce and the bytes are untouched.    *)
(***************************************************************************)
EXTENDS Integers, Sequences, FiniteSets, TLC

VARIABLES
    ini,      \* the Initiator: stage, snow handshake state, authority key
    resp,     \* the Responder: stage, snow handshake state, signature message
    cert,     \* the SignatureNoiseMessage issued at construction, with its inputs
    net1,     \* first flight as emitted by the initiator (NoMsg before)
    net2,     \* second flight as emitted by the responder (NoMsg before)
    calls,    \* per endpoint: how many times step has been called
    tm,       \* per endpoint: the TransportMode obtained from the handshake
    wire,     \* per endpoint: the frames it has written, in order
    sent,     \* per endpoint: the plaintexts it has passed to write, in order
    rcv,      \* per endpoint: how far its peer's frames were delivered in order
    last,     \* the last operation: its arguments and what it returned
    conn,     \* a mining connection: its channel type and work-selection flag
    routed,   \* the last call of handle_message_mining and what it did
    node,     \* a DownstreamMiningNode of the mining proxy
    jobs,     \* the proxy's table of the upstream that announced each job
    px,       \* the last operation on the node and what it did
    lp        \* the message loop of the node: inbox, messages in hand, locks

noise == <<ini, resp, cert, net1, net2, calls, tm, wire, sent, rcv, last>>
router == <<conn, routed>>
proxy == <<node, jobs, px, lp>>
vars == <<ini, resp, cert, net1, net2, calls, tm, wire, sent, rcv, last,
          conn, routed, node, jobs, px, lp>>

----------------------------------------------------------------------------
(* Bounds of the model *)

NAuth == 2
NStatic == 2
IssueTime == 1
MaxTime == 3
MaxDuration == 2
MaxCalls == 3
MaxFrames == 2
MaxReads == 2
MaxLen == 20
NRemote == 2
NGroup == 2
NChannel == 2
NJob == 3
NData == 2
MaxChannels == 1
MaxAdds == 3
MaxMsgs == 2

(* Program constants *)

SIGNATURE_MESSAGE_LEN == 76
MAX_MESSAGE_SIZE == 65535
SNOW_PSKLEN == 32
SNOW_TAGLEN == 16
HEADER_SIZE == 2
BUFFER_LEN == SNOW_PSKLEN + SNOW_PSKLEN + SNOW_TAGLEN + SNOW_TAGLEN + SIGNATURE_MESSAGE_LEN
SIGNATURE_LEN == 64

Authorities == 1..NAuth
StaticKeys == 1..NStatic
Times == 0..MaxTime
Durations == 0..MaxDuration

(* crate::error::Error is a struct without fields: `Error {}` is the one    *)
(* error value every failing operation of the crate returns.               *)
Error == "Error"

----------------------------------------------------------------------------
(* Certificates: auth::SignedPartHeader, auth::SignedPart,                 *)
(* auth::SignatureNoiseMessage, auth::Certificate                          *)

NoHeader == [version |-> 0, valid_from |-> 0, not_valid_after |-> 0]
NoSignature == [signer |-> 0, header |-> NoHeader, pubkey |-> 0, authority |-> 0]
NoCert == [version |-> 0, valid_from |-> 0, not_valid_after |-> 0,
           signature_len |-> 0, signature |-> NoSignature]

\* SignedPartHeader::with_duration: version 0, valid from now for `duration`
WithDuration(duration, now) ==
    [version |-> 0, valid_from |-> now, not_valid_after |-> now + duration]

\* SignedPart::new(header, pubkey, authority_public_key): the signed tuple
SignedPart(header, pubkey, authority) ==
    [header |-> header, pubkey |-> pubkey, authority |-> authority]

\* SignedPart::sign_with(keypair): an Ed25519 signature of the signed part
SignWith(signed_part, kp) ==
    [signer |-> kp, header |-> signed_part.header,
     pubkey |-> signed_part.pubkey, authority |-> signed_part.authority]

\* Ed25519 verification: the signature was made by `pk` over `signed_part`
VerifySignature(signature, signed_part, pk) ==
    /\ signature.signer = pk
    /\ signature.header = signed_part.header
    /\ signature.pubkey = signed_part.pubkey
    /\ signature.authority = signed_part.authority

\* Certificate::build_noise_message: header fields, signature length, signature
BuildNoiseMessage(signed_part, signature) ==
    [version |-> signed_part.header.version,
     valid_from |-> signed_part.header.valid_from,
     not_valid_after |-> signed_part.header.not_valid_after,
     signature_len |-> SIGNATURE_LEN,
     signature |-> signature]

\* A mutant of new_cert_from_raw: the certificate never expires
NewCertFromRawNoExpiry(kp, pub_k, duration, now) ==
    LET header == WithDuration(MaxTime + MaxDuration + 1, now)
        signed_part == SignedPart(header, pub_k, kp)
    IN  BuildNoiseMessage(signed_part, SignWith(signed_part, kp))

\* Authority::new_cert_from_raw(pub_k, duration), called at time `now`
NewCertFromRaw(kp, pub_k, duration, now) ==
    LET header == WithDuration(duration, now)
        signed_part == SignedPart(header, pub_k, kp)
        signature == SignWith(signed_part, kp)
    IN  BuildNoiseMessage(signed_part, signature)

\* Authority::new_cert
NewCert(kp, pub_k, duration, now) == NewCertFromRaw(kp, pub_k, duration, now)

\* SignatureNoiseMessage::try_from(bytes): rejects a wrong signature length
TryFromOk(bytes) == bytes.signature_len = SIGNATURE_LEN

\* Certificate::from_noise_message(msg, remote_static_key, authority_public_key)
FromNoiseMessage(msg, remote_static_key, authority) ==
    [signed_part |->
        SignedPart([version |-> msg.version, valid_from |-> msg.valid_from,
                    not_valid_after |-> msg.not_valid_after],
                   remote_static_key, authority),
     signature |-> msg.signature]

\* Certificate::validate at time `now`: the validity window, then the signature
Validate(certificate, now) ==
    LET h == certificate.signed_part.header IN
    IF now < h.valid_from THEN "CertNotYetValid"
    ELSE IF now >= h.not_valid_after THEN "CertExpired"
    ELSE IF ~VerifySignature(certificate.signature, certificate.signed_part,
                             certificate.signed_part.authority)
         THEN "BadCertificate"
    ELSE "Ok"

----------------------------------------------------------------------------
(* Handshake messages and snow::HandshakeState for the NX pattern          *)
(*   -> e                                                                  *)
(*   <- e, ee, s, es, payload                                              *)

NoMsg == [type |-> "none", e |-> "none", re |-> "none", s |-> 0,
          payload |-> NoCert, len |-> 0, tampered |-> FALSE]
Garbage == [NoMsg EXCEPT !.type = "garbage", !.len = 1]

\* first flight: the sender's ephemeral key in clear, an empty payload
Flight1(e) == [NoMsg EXCEPT !.type = "e", !.e = e, !.len = SNOW_PSKLEN]

\* second flight: e in clear, s and the payload sealed under keys that
\* depend on the ephemeral key `re` received in the first flight
Flight2(e, re, s, payload) ==
    [type |-> "eess", e |-> e, re |-> re, s |-> s, payload |-> payload,
     len |-> SNOW_PSKLEN + (SNOW_PSKLEN + SNOW_TAGLEN)
             + (SIGNATURE_MESSAGE_LEN + SNOW_TAGLEN),
     tampered |-> FALSE]

Tamper(msg) == [msg EXCEPT !.tampered = TRUE]

\* Builder::build_initiator / build_responder: a fresh snow handshake state
NewHandshakeState(initiator, e, s) ==
    [initiator |-> initiator, e |-> e, s |-> s, re |-> "none", rs |-> 0,
     pos |-> 0, broken |-> FALSE]

HsFinished(hs) == hs.pos = 2
HsMyTurnToWrite(hs) == (hs.pos = 0 /\ hs.initiator) \/ (hs.pos = 1 /\ ~hs.initiator)
HsMyTurnToRead(hs) == (hs.pos = 1 /\ hs.initiator) \/ (hs.pos = 0 /\ ~hs.initiator)

\* HandshakeState::write_message(payload, out) with out.len() = buflen
HsWriteMessage(hs, payload, buflen) ==
    LET msg == IF hs.initiator THEN Flight1(hs.e)
               ELSE Flight2(hs.e, hs.re, hs.s, payload)
    IN  IF ~HsMyTurnToWrite(hs) \/ msg.len > buflen
        THEN [ok |-> FALSE, hs |-> hs, msg |-> NoMsg, len |-> 0]
        ELSE [ok |-> TRUE, hs |-> [hs EXCEPT !.pos = @ + 1],
              msg |-> msg, len |-> msg.len]

\* HandshakeState::read_message(msg, out) with out.len() = buflen.  A message
\* that fails authentication may leave the symmetric state advanced
\* (`keep` = FALSE), after which no message authenticates any more.
HsReadMessage(hs, msg, buflen, keep) ==
    LET fail(h) == [ok |-> FALSE, hs |-> h, payload |-> NoCert, len |-> 0]
        plen == IF msg.type = "eess" THEN SIGNATURE_MESSAGE_LEN ELSE 0
    IN  IF ~HsMyTurnToRead(hs) THEN fail(hs)
        ELSE IF hs.initiator
        THEN IF msg.type = "eess" /\ ~msg.tampered /\ msg.re = hs.e
                /\ ~hs.broken /\ plen <= buflen
             THEN [ok |-> TRUE,
                   hs |-> [hs EXCEPT !.re = msg.e, !.rs = msg.s, !.pos = @ + 1],
                   payload |-> msg.payload, len |-> plen]
             ELSE fail(IF keep THEN hs ELSE [hs EXCEPT !.broken = TRUE])
        ELSE IF msg.type = "e" /\ msg.len >= SNOW_PSKLEN
             THEN [ok |-> TRUE, hs |-> [hs EXCEPT !.re = msg.e, !.pos = @ + 1],
                   payload |-> NoCert, len |-> 0]
             ELSE fail(hs)

----------------------------------------------------------------------------
(* handshake::StepResult and the result of a step                          *)

ExpectReply(msg) == [tag |-> "ExpectReply", msg |-> msg]
NoMoreReply(msg) == [tag |-> "NoMoreReply", msg |-> msg]
Done == [tag |-> "Done", msg |-> NoMsg]
Err == [tag |-> Error, msg |-> NoMsg]
\* Ok(()) of TransportMode::read and TransportMode::write
Ok == [tag |-> "Ok", msg |-> NoMsg]
\* a failed debug_assert!: the step does not return
Panic == [tag |-> "panic", msg |-> NoMsg]

(* Initiator *)

\* Initiator::new(authority_public_key)
InitiatorNew(authority) ==
    [stage |-> 0, handshake_state |-> NewHandshakeState(TRUE, "ei", 0),
     authority_public_key |-> authority, consumed |-> FALSE]

\* A mutant of verify_remote_static_key_signature: the certificate is parsed
\* and never validated
VerifyNoValidate(self, signature_noise_message, now) ==
    IF self.handshake_state.rs = 0 THEN Error
    ELSE IF ~TryFromOk(signature_noise_message) THEN Error
    ELSE "Ok"

\* A mutant of verify_remote_static_key_signature: the certificate is
\* validated against the authority key it names itself
VerifyOwnAuthority(self, signature_noise_message, now) ==
    IF self.handshake_state.rs = 0 THEN Error
    ELSE IF ~TryFromOk(signature_noise_message) THEN Error
    ELSE IF Validate(FromNoiseMessage(signature_noise_message,
                                      self.handshake_state.rs,
                                      signature_noise_message.signature.authority),
                     now) # "Ok"
         THEN Error
    ELSE "Ok"

\* A mutant of verify_remote_static_key_signature: the certificate is
\* validated for the static key it names itself
VerifyOwnStaticKey(self, signature_noise_message, now) ==
    IF self.handshake_state.rs = 0 THEN Error
    ELSE IF ~TryFromOk(signature_noise_message) THEN Error
    ELSE IF Validate(FromNoiseMessage(signature_noise_message,
                                      signature_noise_message.signature.pubkey,
                                      self.authority_public_key),
                     now) # "Ok"
         THEN Error
    ELSE "Ok"

\* Initiator::verify_remote_static_key_signature; every failure is mapped
\* to Error {}
VerifyRemoteStaticKeySignature(self, signature_noise_message, now) ==
    IF self.handshake_state.rs = 0 THEN Error
    ELSE IF ~TryFromOk(signature_noise_message) THEN Error
    ELSE IF Validate(FromNoiseMessage(signature_noise_message,
                                      self.handshake_state.rs,
                                      self.authority_public_key),
                     now) # "Ok"
         THEN Error
    ELSE "Ok"

\* A mutant of Initiator::step: stage 1 returns Done although the
\* verification of the certificate failed
InitiatorStepIgnoreVerify(self, in_msg, now, keep) ==
    IF self.stage = 0 THEN
        LET w == HsWriteMessage(self.handshake_state, NoCert, SNOW_PSKLEN + SNOW_TAGLEN)
        IN  IF ~w.ok THEN [self |-> self, res |-> Err]
            ELSE [self |-> [self EXCEPT !.handshake_state = w.hs, !.stage = @ + 1],
                  res |-> ExpectReply(w.msg)]
    ELSE IF self.stage = 1 THEN
        IF in_msg = NoMsg THEN [self |-> self, res |-> Err]
        ELSE
        LET r == HsReadMessage(self.handshake_state, in_msg, BUFFER_LEN, keep)
            read == [self EXCEPT !.handshake_state = r.hs]
        IN  IF ~r.ok THEN [self |-> read, res |-> Err]
            ELSE [self |-> [read EXCEPT !.stage = @ + 1], res |-> Done]
    ELSE [self |-> self, res |-> Err]

\* A mutant of Initiator::step: a step after completion starts over
InitiatorStepRestart(self, in_msg, now, keep) ==
    IF self.stage = 0 THEN
        LET w == HsWriteMessage(self.handshake_state, NoCert, SNOW_PSKLEN + SNOW_TAGLEN)
        IN  IF ~w.ok THEN [self |-> self, res |-> Err]
            ELSE [self |-> [self EXCEPT !.handshake_state = w.hs, !.stage = @ + 1],
                  res |-> ExpectReply(w.msg)]
    ELSE IF self.stage = 1 THEN
        IF in_msg = NoMsg THEN [self |-> self, res |-> Err]
        ELSE
        LET r == HsReadMessage(self.handshake_state, in_msg, BUFFER_LEN, keep)
            read == [self EXCEPT !.handshake_state = r.hs]
        IN  IF ~r.ok THEN [self |-> read, res |-> Err]
            ELSE IF VerifyRemoteStaticKeySignature(read, r.payload, now) # "Ok"
            THEN [self |-> read, res |-> Err]
            ELSE [self |-> [read EXCEPT !.stage = @ + 1], res |-> Done]
    ELSE [self |-> [self EXCEPT !.stage = 0], res |-> Done]

\* A mutant of Initiator::step: stage 0 declares the exchange finished
InitiatorStepNoReply(self, in_msg, now, keep) ==
    IF self.stage = 0 THEN
        LET w == HsWriteMessage(self.handshake_state, NoCert, SNOW_PSKLEN + SNOW_TAGLEN)
        IN  IF ~w.ok THEN [self |-> self, res |-> Err]
            ELSE [self |-> [self EXCEPT !.handshake_state = w.hs, !.stage = @ + 1],
                  res |-> NoMoreReply(w.msg)]
    ELSE IF self.stage = 1 THEN
        IF in_msg = NoMsg THEN [self |-> self, res |-> Err]
        ELSE
        LET r == HsReadMessage(self.handshake_state, in_msg, BUFFER_LEN, keep)
            read == [self EXCEPT !.handshake_state = r.hs]
        IN  IF ~r.ok THEN [self |-> read, res |-> Err]
            ELSE IF VerifyRemoteStaticKeySignature(read, r.payload, now) # "Ok"
            THEN [self |-> read, res |-> Err]
            ELSE [self |-> [read EXCEPT !.stage = @ + 1], res |-> Done]
    ELSE [self |-> self, res |-> Err]

\* Initiator::step(in_msg), with the clock reading `now` when the
\* certificate is validated.  A `?` returns before `self.stage += 1`.
InitiatorStep(self, in_msg, now, keep) ==
    IF self.stage = 0 THEN
        \* -> e : in_msg is not looked at
        LET w == HsWriteMessage(self.handshake_state, NoCert, SNOW_PSKLEN + SNOW_TAGLEN)
        IN  IF ~w.ok THEN [self |-> self, res |-> Err]
            ELSE [self |-> [self EXCEPT !.handshake_state = w.hs, !.stage = @ + 1],
                  res |-> ExpectReply(w.msg)]
    ELSE IF self.stage = 1 THEN
        \* <- e, ee, s, es, SIGNATURE_NOISE_MESSAGE
        IF in_msg = NoMsg THEN [self |-> self, res |-> Err]
        ELSE
        LET r == HsReadMessage(self.handshake_state, in_msg, BUFFER_LEN, keep)
            read == [self EXCEPT !.handshake_state = r.hs]
        IN  IF ~r.ok THEN [self |-> read, res |-> Err]
            \* debug_assert!(SIGNATURE_MESSAGE_LEN == signature_len)
            ELSE IF r.len # SIGNATURE_MESSAGE_LEN THEN [self |-> read, res |-> Panic]
            ELSE IF VerifyRemoteStaticKeySignature(read, r.payload, now) # "Ok"
            THEN [self |-> read, res |-> Err]
            ELSE [self |-> [read EXCEPT !.stage = @ + 1], res |-> Done]
    ELSE [self |-> self, res |-> Err]

(* Responder *)

\* Responder::new(static_keypair, signature_noise_message)
ResponderNew(static_keypair, signature_noise_message) ==
    [stage |-> 0, handshake_state |-> NewHandshakeState(FALSE, "er", static_keypair),
     signature_noise_message |-> signature_noise_message, consumed |-> FALSE]

\* Responder::from_authority_kp(pub_k, priv_k, duration): a fresh static
\* keypair, certified by the authority itself at time `now`
ResponderFromAuthorityKp(kp, duration, static_keypair, now) ==
    ResponderNew(static_keypair, NewCert(kp, static_keypair, duration, now))

\* A mutant of Responder::step: the second flight is announced with
\* ExpectReply
ResponderStepExpectReply(self, in_msg) ==
    IF self.stage = 0 THEN
        IF in_msg = NoMsg THEN [self |-> self, res |-> Err]
        ELSE
        LET r == HsReadMessage(self.handshake_state, in_msg, BUFFER_LEN, TRUE)
            w == HsWriteMessage(r.hs, self.signature_noise_message, BUFFER_LEN)
        IN  IF ~r.ok THEN [self |-> [self EXCEPT !.handshake_state = r.hs], res |-> Err]
            ELSE IF ~w.ok THEN [self |-> [self EXCEPT !.handshake_state = r.hs], res |-> Err]
            ELSE [self |-> [self EXCEPT !.handshake_state = w.hs, !.stage = @ + 1],
                  res |-> ExpectReply(w.msg)]
    ELSE IF self.stage = 1 THEN
        [self |-> [self EXCEPT !.stage = @ + 1], res |-> Done]
    ELSE [self |-> self, res |-> Err]

\* A mutant of Responder::step: stage 0 reads the first flight and returns
\* without writing the second
ResponderStepNoWrite(self, in_msg) ==
    IF self.stage = 0 THEN
        IF in_msg = NoMsg THEN [self |-> self, res |-> Err]
        ELSE
        LET r == HsReadMessage(self.handshake_state, in_msg, BUFFER_LEN, TRUE)
        IN  IF ~r.ok THEN [self |-> [self EXCEPT !.handshake_state = r.hs], res |-> Err]
            ELSE [self |-> [self EXCEPT !.handshake_state = r.hs, !.stage = @ + 1],
                  res |-> NoMoreReply(Flight2(r.hs.e, r.hs.re, r.hs.s,
                                              self.signature_noise_message))]
    ELSE IF self.stage = 1 THEN
        [self |-> [self EXCEPT !.stage = @ + 1], res |-> Done]
    ELSE [self |-> self, res |-> Err]

\* A mutant of Responder::step: the stage is advanced before the match, so
\* a failed step advances it too
ResponderStepCountsCalls(self, in_msg) ==
    LET next == [self EXCEPT !.stage = @ + 1]
    IN  IF self.stage = 0 THEN
            IF in_msg = NoMsg THEN [self |-> next, res |-> Err]
            ELSE
            LET r == HsReadMessage(self.handshake_state, in_msg, BUFFER_LEN, TRUE)
                w == HsWriteMessage(r.hs, self.signature_noise_message, BUFFER_LEN)
            IN  IF ~r.ok THEN [self |-> [next EXCEPT !.handshake_state = r.hs], res |-> Err]
                ELSE IF ~w.ok THEN [self |-> [next EXCEPT !.handshake_state = r.hs], res |-> Err]
                ELSE IF w.len # BUFFER_LEN
                     THEN [self |-> [self EXCEPT !.handshake_state = w.hs], res |-> Panic]
                ELSE [self |-> [next EXCEPT !.handshake_state = w.hs],
                      res |-> NoMoreReply(w.msg)]
        ELSE IF self.stage = 1 THEN [self |-> next, res |-> Done]
        ELSE [self |-> next, res |-> Err]

\* Responder::step(in_msg)
ResponderStep(self, in_msg) ==
    IF self.stage = 0 THEN
        \* <- e, then -> e, ee, s, es, SIGNATURE_NOISE_MESSAGE
        IF in_msg = NoMsg THEN [self |-> self, res |-> Err]
        ELSE
        LET r == HsReadMessage(self.handshake_state, in_msg, BUFFER_LEN, TRUE)
            w == HsWriteMessage(r.hs, self.signature_noise_message, BUFFER_LEN)
        IN  IF ~r.ok THEN [self |-> [self EXCEPT !.handshake_state = r.hs], res |-> Err]
            ELSE IF ~w.ok THEN [self |-> [self EXCEPT !.handshake_state = r.hs], res |-> Err]
            \* debug_assert!(buffer_len == len_written)
            ELSE IF w.len # BUFFER_LEN
                 THEN [self |-> [self EXCEPT !.handshake_state = w.hs], res |-> Panic]
            ELSE [self |-> [self EXCEPT !.handshake_state = w.hs, !.stage = @ + 1],
                  res |-> NoMoreReply(w.msg)]
    ELSE IF self.stage = 1 THEN
        [self |-> [self EXCEPT !.stage = @ + 1], res |-> Done]
    ELSE [self |-> self, res |-> Err]

----------------------------------------------------------------------------
(* TransportMode: snow::TransportState behind read and write               *)

Endpoints == {"I", "R"}
Peer(ep) == IF ep = "I" THEN "R" ELSE "I"

NoSession == <<"none", "none", 0>>
NoTransport == [state |-> "none", session |-> NoSession, initiator |-> FALSE,
                sn |-> 0, rn |-> 0]

\* HandshakeState::into_transport_mode: fails unless the handshake is
\* finished; the two cipher keys are derived from ee and es, that is from
\* the two ephemeral keys and the responder's static key
IntoTransportMode(hs) ==
    IF ~HsFinished(hs) THEN [NoTransport EXCEPT !.state = "failed"]
    ELSE [state |-> "ok",
          session |-> IF hs.initiator THEN <<hs.e, hs.re, hs.rs>>
                      ELSE <<hs.re, hs.e, hs.s>>,
          initiator |-> hs.initiator, sn |-> 0, rn |-> 0]

\* a plaintext: its length and what distinguishes it from others of that length
NoPlain == [len |-> 0, body |-> "none"]
Plaintexts ==
    {[len |-> 0, body |-> "a"], [len |-> 12, body |-> "a"],
     [len |-> MAX_MESSAGE_SIZE - SNOW_TAGLEN, body |-> "a"],
     [len |-> MAX_MESSAGE_SIZE - SNOW_TAGLEN + 1, body |-> "a"]}

\* usize::MAX.  The model checker's integers stop at 2^31 - 1, so the width
\* of usize is scaled to 31 bits; what follows depends only on how far a
\* length is from the largest one.
USIZE_MAX == 2147483647

\* a + b does not fit usize: a panic with overflow checks on, a wrap without
AddOverflows(a, b) == a > USIZE_MAX - b

\* a + b in usize, wrapping
WrappingAdd(a, b) == IF AddOverflows(a, b) THEN a - (USIZE_MAX - b) - 1 ELSE a + b

\* Option::None of size_hint_decrypt
None == -1

\* A mutant of TransportMode::size_hint_encrypt: the tag is not counted
SizeHintEncryptNoTag(payload_len) == payload_len

\* TransportMode::size_hint_encrypt: payload_len + SNOW_TAGLEN in usize
SizeHintEncrypt(payload_len) == WrappingAdd(payload_len, SNOW_TAGLEN)

\* TransportMode::size_hint_decrypt: checked_sub
SizeHintDecrypt(encrypted_msg_len) ==
    IF encrypted_msg_len >= SNOW_TAGLEN THEN encrypted_msg_len - SNOW_TAGLEN ELSE None

NoFrame == [session |-> NoSession, initiator |-> FALSE, n |-> 0,
            plain |-> NoPlain, len |-> 0]

\* A mutant of TransportMode::write: the send nonce is not advanced
TransportWriteSameNonce(self, plain_msg, buflen) ==
    IF plain_msg.len + SNOW_TAGLEN > MAX_MESSAGE_SIZE
       \/ plain_msg.len + SNOW_TAGLEN > buflen
    THEN [ok |-> FALSE, self |-> self, frame |-> NoFrame]
    ELSE [ok |-> TRUE, self |-> self,
          frame |-> [session |-> self.session, initiator |-> self.initiator,
                     n |-> self.sn, plain |-> plain_msg,
                     len |-> plain_msg.len + SNOW_TAGLEN]]

\* TransportMode::write(plain_msg, encrypted_msg) with encrypted_msg.len() =
\* buflen: TransportState::write_message seals the plaintext under the send
\* key and the send nonce, which it advances
TransportWrite(self, plain_msg, buflen) ==
    IF plain_msg.len + SNOW_TAGLEN > MAX_MESSAGE_SIZE
       \/ plain_msg.len + SNOW_TAGLEN > buflen
    THEN [ok |-> FALSE, self |-> self, frame |-> NoFrame]
    ELSE [ok |-> TRUE, self |-> [self EXCEPT !.sn = @ + 1],
          frame |-> [session |-> self.session, initiator |-> self.initiator,
                     n |-> self.sn, plain |-> plain_msg,
                     len |-> plain_msg.len + SNOW_TAGLEN]]

\* A mutant of TransportMode::read: the frame is opened without comparing
\* the tag, so an altered frame is delivered
TransportReadNoTag(self, frame, tampered, buflen, keep) ==
    IF frame.len > MAX_MESSAGE_SIZE
       \/ frame.len < SNOW_TAGLEN \/ buflen < frame.len - SNOW_TAGLEN
    THEN [ok |-> FALSE, self |-> self, out |-> NoPlain]
    ELSE [ok |-> TRUE, self |-> [self EXCEPT !.rn = @ + 1], out |-> frame.plain]

\* the lengths TransportState::read_message checks before the cipher runs
ReadLengthsOk(frame, buflen) ==
    /\ frame.len <= MAX_MESSAGE_SIZE
    /\ frame.len >= SNOW_TAGLEN
    /\ buflen >= frame.len - SNOW_TAGLEN

\* A mutant of the tag check: the nonce the frame was sealed under is not
\* part of it
TagMatchesAnyNonce(self, frame, tampered) ==
    /\ frame.session = self.session
    /\ frame.initiator # self.initiator
    /\ ~tampered

\* the tag of the frame matches under the receive key and the receive nonce
TagMatches(self, frame, tampered) ==
    /\ frame.session = self.session
    /\ frame.initiator # self.initiator
    /\ frame.n = self.rn
    /\ ~tampered

\* TransportMode::read(encrypted_msg, decrypted_msg) with decrypted_msg.len()
\* = buflen: TransportState::read_message opens the frame under the receive
\* key and the receive nonce.  The lengths are checked first and a failure
\* there leaves the state alone.  Once the cipher has run the receive nonce
\* is advanced when the tag matched; when it did not, the snow crate the build
\* links decides: it leaves the nonce (keep) or advances it all the same
\* (releases before 0.9.5).  Every failure is mapped to Error {}.
TransportRead(self, frame, tampered, buflen, keep) ==
    IF ~ReadLengthsOk(frame, buflen)
    THEN [ok |-> FALSE, self |-> self, out |-> NoPlain]
    ELSE IF TagMatches(self, frame, tampered)
    THEN [ok |-> TRUE, self |-> [self EXCEPT !.rn = @ + 1], out |-> frame.plain]
    ELSE [ok |-> FALSE, self |-> IF keep THEN self ELSE [self EXCEPT !.rn = @ + 1],
          out |-> NoPlain]

----------------------------------------------------------------------------
(* Mining message parsers: handlers/mining.rs                              *)

\* enum SupportedChannelTypes
SupportedChannelTypes == {"Standard", "Extended", "Group", "GroupAndExtended"}

\* the variants of parsers::Mining a downstream sends
DownstreamVariants ==
    {"OpenStandardMiningChannel", "OpenExtendedMiningChannel", "UpdateChannel",
     "SubmitSharesStandard", "SubmitSharesExtended", "SetCustomMiningJob"}

\* the variants of parsers::Mining an upstream sends
UpstreamVariants ==
    {"OpenStandardMiningChannelSuccess", "OpenExtendedMiningChannelSuccess",
     "OpenMiningChannelError", "UpdateChannelError", "CloseChannel",
     "SetExtranoncePrefix", "SubmitSharesSuccess", "SubmitSharesError",
     "NewMiningJob", "NewExtendedMiningJob", "SetNewPrevHash",
     "SetCustomMiningJobSuccess", "SetCustomMiningJobError", "SetTarget",
     "Reconnect", "SetGroupChannel"}

\* what (message_type, payload).try_into() gives: a variant of Mining, or
\* the error of a pair that is no mining message
Undecodable == "Undecodable"
Decoded == DownstreamVariants \cup UpstreamVariants \cup {Undecodable}

\* MiningRoutingLogic: None or Proxy(logic)
RoutingLogics == {"None", "Proxy"}

\* the upstreams (or downstreams) a routing hook can select; 0 is no remote
Remotes == 1..NRemote

\* what a routing hook returns: Ok(remote) or Err(e)
HookResults == [ok : {TRUE}, remote : Remotes] \cup {[ok |-> FALSE, remote |-> 0]}

\* what a handler returns, Result<SendTo, Error>: a directive, or an error
\* of the handler's own, which may itself be UnexpectedMessage
HandlerResults ==
    {[ok |-> TRUE, val |-> "RelaySameMessage"], [ok |-> TRUE, val |-> "None"],
     [ok |-> FALSE, val |-> "HandlerError"], [ok |-> FALSE, val |-> "UnexpectedMessage"]}

\* the arm `Ok(_)` answering with the directive None
UnexpectedMessageIgnored ==
    [res |-> [ok |-> TRUE, val |-> "None"], handler |-> "none", remote |-> 0]

\* Err(Error::UnexpectedMessage) of the parser: no handler was called
UnexpectedMessage ==
    [res |-> [ok |-> FALSE, val |-> "UnexpectedMessage"], handler |-> "none", remote |-> 0]

\* the kind of the error of TryFrom<(u8, &mut [u8])> for Mining
DecodeError == "BadMessage"

\* the decode error answered with the directive None
BadMessageSwallowed ==
    [res |-> [ok |-> TRUE, val |-> "None"], handler |-> "none", remote |-> 0]

\* Err(e) of a pair that does not decode
BadMessage ==
    [res |-> [ok |-> FALSE, val |-> DecodeError], handler |-> "none", remote |-> 0]

\* Some(up?) with a hook that failed: the hook's error is returned
RoutingError ==
    [res |-> [ok |-> FALSE, val |-> "RoutingError"], handler |-> "none", remote |-> 0]

\* MiningRoutingLogic::_P(_) => panic!()
RouterPanic ==
    [res |-> [ok |-> FALSE, val |-> "panic"], handler |-> "none", remote |-> 0]

\* self_mutex.safe_lock(|s| s.handle_...(m)).unwrap(): the handler is
\* called and its result returned
Handle(handler, hres, remote) == [res |-> hres, handler |-> handler, remote |-> remote]

\* the default ParseUpstreamMiningMessages::handle_set_group_channel
HandleSetGroupChannel == [ok |-> TRUE, val |-> "None"]

\* the match on routing_logic before the channel type is looked at: the hook
\* that was called, and the upstream it selected or the error
Route(routing_logic, hook, hookres) ==
    CASE routing_logic = "None" -> [hook |-> "none", ok |-> TRUE, remote |-> 0]
      [] routing_logic = "Proxy" -> [hook |-> hook, ok |-> hookres.ok, remote |-> hookres.remote]
      [] OTHER -> [hook |-> "panic", ok |-> FALSE, remote |-> 0]

\* every arm calls the handler
ExtendedArmsAll(channel_type) == TRUE

\* the arms of an extended-channel message that call its handler:
\* SupportedChannelTypes::Extended and SupportedChannelTypes::GroupAndExtended
ExtendedArms(channel_type) == channel_type \in {"Extended", "GroupAndExtended"}

\* the arm of NewMiningJob that calls its handler
NewMiningJobArms(channel_type) == channel_type = "Standard"

\* NewExtendedMiningJob with the arms of NewMiningJob
NewExtendedMiningJobArmsStandard(channel_type) == channel_type = "Standard"

\* the arms of NewExtendedMiningJob that call its handler
NewExtendedMiningJobArms(channel_type) ==
    channel_type \in {"Extended", "Group", "GroupAndExtended"}

\* SetGroupChannel admitted on Extended connections too
SetGroupChannelArmsExtended(channel_type) ==
    channel_type \in {"Extended", "Group", "GroupAndExtended"}

\* SetGroupChannel without the GroupAndExtended arm
SetGroupChannelArmsGroupOnly(channel_type) == channel_type = "Group"

\* the arms of SetGroupChannel that call its handler
SetGroupChannelArms(channel_type) == channel_type \in {"Group", "GroupAndExtended"}

\* the custom-job arms without the work-selection flag
CustomJobArmAnyFlag(channel_type, is_work_selection_enabled) ==
    channel_type \in {"Extended", "Group", "GroupAndExtended"}

\* the three arms that call a handler when work selection is enabled and the
\* channel type is not Standard
CustomJobArm(channel_type, is_work_selection_enabled) ==
    \/ channel_type = "Extended" /\ is_work_selection_enabled
    \/ channel_type = "Group" /\ is_work_selection_enabled
    \/ channel_type = "GroupAndExtended" /\ is_work_selection_enabled

\* ParseDownstreamMiningMessages::handle_message_mining, by what the pair
\* decodes to; hookres is what the routing hook returns if it is called and
\* hres what the handler returns if it is called
ParseDownstreamMiningMessages(channel_type, is_work_selection_enabled, decoded, routing_logic, hookres, hres) ==
    CASE decoded = "OpenStandardMiningChannel" ->
            LET upstream == Route(routing_logic, "on_open_standard_channel", hookres)
                out == IF upstream.hook = "panic" THEN RouterPanic
                       ELSE IF ~upstream.ok THEN RoutingError
                       ELSE IF channel_type = "Extended" THEN UnexpectedMessage
                       ELSE Handle("handle_open_standard_mining_channel", hres,
                                   upstream.remote)
            IN  [out |-> out, hook |-> upstream.hook]
      [] decoded = "OpenExtendedMiningChannel" ->
            [out |-> IF ExtendedArms(channel_type)
                     THEN Handle("handle_open_extended_mining_channel", hres, 0)
                     ELSE UnexpectedMessage,
             hook |-> "none"]
      [] decoded = "UpdateChannel" ->
            [out |-> Handle("handle_update_channel", hres, 0), hook |-> "none"]
      [] decoded = "SubmitSharesStandard" ->
            [out |-> IF channel_type = "Extended" THEN UnexpectedMessage
                     ELSE Handle("handle_submit_shares_standard", hres, 0),
             hook |-> "none"]
      [] decoded = "SubmitSharesExtended" ->
            [out |-> IF ExtendedArms(channel_type)
                     THEN Handle("handle_submit_shares_extended", hres, 0)
                     ELSE UnexpectedMessage,
             hook |-> "none"]
      [] decoded = "SetCustomMiningJob" ->
            [out |-> IF CustomJobArm(channel_type, is_work_selection_enabled)
                     THEN Handle("handle_set_custom_mining_job", hres, 0)
                     ELSE UnexpectedMessage,
             hook |-> "none"]
      [] decoded = Undecodable -> [out |-> BadMessage, hook |-> "none"]
      [] OTHER -> [out |-> UnexpectedMessage, hook |-> "none"]

\* no upstream message is admitted by every channel type
UpstreamHandlerOfNone(decoded) == "none"

\* the handler of an upstream message that every channel type admits
UpstreamHandlerOf(decoded) ==
    CASE decoded = "OpenMiningChannelError" -> "handle_open_mining_channel_error"
      [] decoded = "UpdateChannelError" -> "handle_update_channel_error"
      [] decoded = "CloseChannel" -> "handle_close_channel"
      [] decoded = "SetExtranoncePrefix" -> "handle_set_extranonce_prefix"
      [] decoded = "SubmitSharesSuccess" -> "handle_submit_shares_success"
      [] decoded = "SubmitSharesError" -> "handle_submit_shares_error"
      [] decoded = "SetNewPrevHash" -> "handle_set_new_prev_hash"
      [] decoded = "SetTarget" -> "handle_set_target"
      [] decoded = "Reconnect" -> "handle_reconnect"
      [] OTHER -> "none"

\* ParseUpstreamMiningMessages::handle_message_mining
ParseUpstreamMiningMessages(channel_type, is_work_selection_enabled, decoded, routing_logic, hookres, hres) ==
    CASE decoded = "OpenStandardMiningChannelSuccess" ->
            LET remote == Route(routing_logic, "on_open_standard_channel_success", hookres)
                out == IF remote.hook = "panic" THEN RouterPanic
                       ELSE IF ~remote.ok THEN RoutingError
                       ELSE IF channel_type = "Extended" THEN UnexpectedMessage
                       ELSE Handle("handle_open_standard_mining_channel_success", hres,
                                   remote.remote)
            IN  [out |-> out, hook |-> remote.hook]
      [] decoded = "OpenExtendedMiningChannelSuccess" ->
            [out |-> IF ExtendedArms(channel_type)
                     THEN Handle("handle_open_extended_mining_channel_success", hres, 0)
                     ELSE UnexpectedMessage,
             hook |-> "none"]
      [] UpstreamHandlerOf(decoded) # "none" ->
            [out |-> Handle(UpstreamHandlerOf(decoded), hres, 0), hook |-> "none"]
      [] decoded = "NewMiningJob" ->
            [out |-> IF NewMiningJobArms(channel_type)
                     THEN Handle("handle_new_mining_job", hres, 0)
                     ELSE UnexpectedMessage,
             hook |-> "none"]
      [] decoded = "NewExtendedMiningJob" ->
            [out |-> IF NewExtendedMiningJobArms(channel_type)
                     THEN Handle("handle_new_extended_mining_job", hres, 0)
                     ELSE UnexpectedMessage,
             hook |-> "none"]
      [] decoded = "SetCustomMiningJobSuccess" ->
            [out |-> IF CustomJobArm(channel_type, is_work_selection_enabled)
                     THEN Handle("handle_set_custom_mining_job_success", hres, 0)
                     ELSE UnexpectedMessage,
             hook |-> "none"]
      [] decoded = "SetCustomMiningJobError" ->
            [out |-> IF CustomJobArm(channel_type, is_work_selection_enabled)
                     THEN Handle("handle_set_custom_mining_job_error", hres, 0)
                     ELSE UnexpectedMessage,
             hook |-> "none"]
      [] decoded = "SetGroupChannel" ->
            [out |-> IF SetGroupChannelArms(channel_type)
                     THEN Handle("handle_set_group_channel", HandleSetGroupChannel, 0)
                     ELSE UnexpectedMessage,
             hook |-> "none"]
      [] decoded = Undecodable -> [out |-> BadMessage, hook |-> "none"]
      [] OTHER -> [out |-> UnexpectedMessage, hook |-> "none"]

\* no connection, no call
NoConn == [channel_type |-> "none", work_selection |-> FALSE]
NoRouted == [from |-> "none", decoded |-> "none", routing_logic |-> "none",
             hookres |-> [ok |-> FALSE, remote |-> 0],
             hres |-> [ok |-> FALSE, val |-> "none"],
             out |-> UnexpectedMessage, hook |-> "none"]

RouterIdle == conn = NoConn /\ routed = NoRouted

\* a call record of handle_message_mining
RoutedCall(from, decoded, routing_logic, hookres, hres, r) ==
    [from |-> from, decoded |-> decoded, routing_logic |-> routing_logic,
     hookres |-> hookres, hres |-> hres, out |-> r.out, hook |-> r.hook]

\* the hook and handler results that matter to a call: the ones of a hook or
\* handler that is not called are fixed
HookMatters(decoded, routing_logic) ==
    /\ routing_logic = "Proxy"
    /\ decoded \in {"OpenStandardMiningChannel", "OpenStandardMiningChannelSuccess"}

\* a message from the downstream, handled by the parser of downstream messages
FromDownstream ==
    /\ \E decoded \in Decoded, routing_logic \in RoutingLogics,
          hookres \in HookResults, hres \in HandlerResults :
        LET r == ParseDownstreamMiningMessages(conn.channel_type, conn.work_selection,
                                               decoded, routing_logic, hookres, hres)
        IN  /\ HookMatters(decoded, routing_logic) \/ hookres = [ok |-> FALSE, remote |-> 0]
            /\ r.out.handler # "none" \/ hres = [ok |-> TRUE, val |-> "None"]
            /\ routed' = RoutedCall("downstream", decoded, routing_logic, hookres, hres, r)
    /\ UNCHANGED <<noise, conn, proxy>>

\* a message from the upstream, handled by the parser of upstream messages
FromUpstream ==
    /\ \E decoded \in Decoded, routing_logic \in RoutingLogics,
          hookres \in HookResults, hres \in HandlerResults :
        LET r == ParseUpstreamMiningMessages(conn.channel_type, conn.work_selection,
                                             decoded, routing_logic, hookres, hres)
        IN  /\ HookMatters(decoded, routing_logic) \/ hookres = [ok |-> FALSE, remote |-> 0]
            /\ r.out.handler # "none" \/ hres = [ok |-> TRUE, val |-> "None"]
            /\ routed' = RoutedCall("upstream", decoded, routing_logic, hookres, hres, r)
    /\ UNCHANGED <<noise, conn, proxy>>

----------------------------------------------------------------------------
(* DownstreamMiningNode: roles/v2/mining-proxy/src/lib/downstream_mining.rs *)

\* group ids, channel ids, job ids and CommonDownstreamData values
Groups == 1..NGroup
ChannelIds == 1..NChannel
JobIds == 1..NJob
DownstreamData == 1..NData

\* HashMap::new() of group_id -> Vec<DownstreamChannel>: no group has a channel
NoChannels == [g \in Groups |-> <<>>]

\* a DownstreamChannel, by its channel_id() and group_id()
DownstreamChannels == [channel_id : ChannelIds, group_id : Groups]

\* DownstreamMiningNode::new: status Initializing, empty tables.  running
\* says that the message loop of start was spawned, panicked that a panic
\* ended the node's task, and closed that the peer's ends of the receiver
\* and sender channels are gone.
NewNode ==
    [status |-> "Initializing", data |-> 0, channels |-> NoChannels,
     channel_id_to_group_id |-> [c \in ChannelIds |-> 0], prev_job_id |-> None,
     running |-> FALSE, panicked |-> FALSE, closed |-> FALSE]

\* DownstreamMiningNodeStatus::is_paired
IsPaired(self) == self.status = "Paired"

\* pair on a Paired status replaces it as on an Initializing one
PairAgain(self, data) ==
    [panic |-> FALSE,
     self |-> [self EXCEPT !.status = "Paired", !.data = data, !.channels = NoChannels]]

\* DownstreamMiningNodeStatus::pair
Pair(self, data) ==
    IF self.status = "Initializing"
    THEN [panic |-> FALSE,
          self |-> [self EXCEPT !.status = "Paired", !.data = data,
                                !.channels = NoChannels]]
    ELSE [panic |-> TRUE, self |-> self]

\* DownstreamMiningNodeStatus::get_channels
GetChannels(self) ==
    IF self.status = "Initializing"
    THEN [panic |-> TRUE, channels |-> NoChannels]
    ELSE [panic |-> FALSE, channels |-> self.channels]

\* the channel is put at the front of its bucket
StatusAddChannelFront(self, channel) ==
    IF self.status = "Initializing"
    THEN [panic |-> TRUE, self |-> self]
    ELSE [panic |-> FALSE,
          self |-> [self EXCEPT !.channels[channel.group_id] = <<channel>> \o @]]

\* DownstreamMiningNodeStatus::add_channel
StatusAddChannel(self, channel) ==
    IF self.status = "Initializing"
    THEN [panic |-> TRUE, self |-> self]
    ELSE [panic |-> FALSE,
          self |-> [self EXCEPT !.channels[channel.group_id] = Append(@, channel)]]

\* DownstreamMiningNode::add_channel: the insert into channel_id_to_group_id
\* comes first, then the status is asked to add the channel
AddChannel(self, channel) ==
    StatusAddChannel(
        [self EXCEPT !.channel_id_to_group_id[channel.channel_id] = channel.group_id],
        channel)

\* IsDownstream::get_downstream_mining_data
GetDownstreamMiningData(self) ==
    IF self.status = "Initializing"
    THEN [panic |-> TRUE, data |-> 0]
    ELSE [panic |-> FALSE, data |-> self.data]

\* ParseDownstreamMiningMessages::get_channel_type and
\* is_work_selection_enabled of the node
NodeConn == [channel_type |-> "Group", work_selection |-> FALSE]

\* the fields of a share or of the error that answers it
NoBody == [channel_id |-> 0, job_id |-> 0, error_code |-> "none", dispatcher |-> <<0, 0>>]

\* a message, by its type and the fields the proxy reads or writes
Msg(type, m) == [type |-> type, m |-> m]
NoMessage == Msg("none", NoBody)

\* DownstreamMiningNode::send: sender.send(frame) fails only when the peer
\* end of the channel is closed, and that arm is todo!("172")
Send(self, frame) ==
    IF self.closed
    THEN [res |-> "panic", down |-> NoMessage]
    ELSE [res |-> "ok", down |-> frame]

\* todo!() or unwrap() of None in a handler: the call does not return
Todo == [ok |-> FALSE, val |-> "panic", remote |-> 0, message |-> NoMessage]

\* a SubmitSharesStandard, by the fields the proxy reads
Shares == {[NoBody EXCEPT !.channel_id = c, !.job_id = j] : c \in ChannelIds, j \in JobIds}

\* the entry of r.channel_id_to_job_dispatcher for a group: a group
\* dispatcher, a dispatcher of another kind, or none
Dispatchers == {"Group", "Other", "None"}

\* what the dispatcher decides about a share
Verdicts == {"Valid", "Invalid"}

\* GroupChannelJobDispatcher::on_submit_shares of the dispatcher of group
\* group_id on upstream remote: the share rewritten for that upstream, or
\* the error for the downstream; dispatcher records who produced it
OnSubmitShares(remote, group_id, m, verdict) ==
    IF verdict = "Valid"
    THEN [tag |-> "Valid", m |-> [m EXCEPT !.dispatcher = <<remote, group_id>>]]
    ELSE [tag |-> "Invalid",
          m |-> [m EXCEPT !.job_id = 0, !.error_code = "invalid",
                          !.dispatcher = <<remote, group_id>>]]

\* the directives of SendTo
RelaySameMessage(remote) ==
    [ok |-> TRUE, val |-> "RelaySameMessage", remote |-> remote, message |-> NoMessage]
RelayNewMessage(remote, message) ==
    [ok |-> TRUE, val |-> "RelayNewMessage", remote |-> remote, message |-> message]
Respond(message) ==
    [ok |-> TRUE, val |-> "Respond", remote |-> 0, message |-> message]

\* the share goes to the first upstream, whoever announced the job
UpstreamFromJobIdFirst(from_job_id, job_id) == 1

\* crate::upstream_from_job_id: the upstream that announced the job, 0 if none
UpstreamFromJobId(from_job_id, job_id) == from_job_id[job_id]

\* an invalid share is relayed as it came
InvalidRelayed(remote, m, response) == RelaySameMessage(remote)

\* the arm of SendSharesResponse::Invalid
InvalidResponse(remote, m, response) ==
    Respond(Msg("SubmitSharesError", response.m))

\* None => todo!() of the two lookups
LookupMiss == Todo

\* DownstreamMiningNode::handle_submit_shares_standard
HandleSubmitSharesStandard(self, m, from_job_id, dispatcher, verdict) ==
    LET group_id == self.channel_id_to_group_id[m.channel_id]
        remote == UpstreamFromJobId(from_job_id, m.job_id)
        response == OnSubmitShares(remote, group_id, m, verdict)
    IN  IF group_id = 0 THEN LookupMiss
        ELSE IF remote = 0 THEN LookupMiss
        ELSE IF dispatcher = "Group"
        THEN IF response.tag = "Valid"
             THEN RelayNewMessage(remote, Msg("SubmitSharesStandard", response.m))
             ELSE InvalidResponse(remote, m, response)
        ELSE Todo

\* the channel is opened at the first upstream, whichever the routing logic
\* selected
HandleOpenStandardMiningChannelFirst(up) ==
    IF up = 0 THEN Todo ELSE RelaySameMessage(1)

\* DownstreamMiningNode::handle_open_standard_mining_channel: up.unwrap()
HandleOpenStandardMiningChannel(up) ==
    IF up = 0 THEN Todo ELSE RelaySameMessage(up)

\* the node's handler for a decoded message; the handlers of the other
\* messages are todo!()
NodeHandler(self, decoded, up, m, from_job_id, dispatcher, verdict) ==
    CASE decoded = "OpenStandardMiningChannel" -> HandleOpenStandardMiningChannel(up)
      [] decoded = "SubmitSharesStandard" ->
            HandleSubmitSharesStandard(self, m, from_job_id, dispatcher, verdict)
      [] OTHER -> Todo

\* handle_message_mining on the node: the lock that reads the channel type
\* also calls get_downstream_mining_data, then the message is parsed and
\* the node's handler called
HandleMessageMining(self, decoded, routing_logic, hookres, m, from_job_id, dispatcher, verdict) ==
    IF GetDownstreamMiningData(self).panic
    THEN [out |-> RouterPanic, hook |-> "none"]
    ELSE ParseDownstreamMiningMessages(
             NodeConn.channel_type, NodeConn.work_selection, decoded, routing_logic,
             hookres,
             NodeHandler(self, decoded,
                         Route(routing_logic, "on_open_standard_channel", hookres).remote,
                         m, from_job_id, dispatcher, verdict))

\* nothing sent upstream
NoUp == [remote |-> 0, message |-> NoMessage]

\* UpstreamMiningNode::send(upstream_mutex, frame).await.unwrap()
SendUpstream(remote, message, upsend_ok) ==
    IF upsend_ok
    THEN [res |-> "ok", up |-> [remote |-> remote, message |-> message], down |-> NoMessage]
    ELSE [res |-> "panic", up |-> NoUp, down |-> NoMessage]

\* Err(Error::UnexpectedMessage) => todo!("148")
UnexpectedArm == [res |-> "panic", up |-> NoUp, down |-> NoMessage]

\* DownstreamMiningNode::next after handle_message_mining: the match on
\* next_message_to_send
NextMatch(self, incoming, out, upsend_ok) ==
    CASE out.res.val = "panic" -> [res |-> "panic", up |-> NoUp, down |-> NoMessage]
      [] out.res.ok /\ out.res.val = "RelaySameMessage" ->
            SendUpstream(out.res.remote, incoming, upsend_ok)
      [] out.res.ok /\ out.res.val = "RelayNewMessage" ->
            SendUpstream(out.res.remote, out.res.message, upsend_ok)
      [] out.res.ok /\ out.res.val = "Respond" ->
            [res |-> Send(self, out.res.message).res, up |-> NoUp,
             down |-> Send(self, out.res.message).down]
      [] out.res.ok /\ out.res.val = "None" -> [res |-> "ok", up |-> NoUp, down |-> NoMessage]
      [] ~out.res.ok /\ out.res.val = "UnexpectedMessage" -> UnexpectedArm
      [] OTHER -> [res |-> "panic", up |-> NoUp, down |-> NoMessage]

\* no operation on the node yet
NoPx ==
    [op |-> "none", res |-> "none", decoded |-> "none", up |-> NoUp, down |-> NoMessage,
     m |-> NoBody, data |-> 0, verdict |-> "none", out |-> Todo, hook |-> "none",
     hookres |-> [ok |-> FALSE, remote |-> 0]]

\* the table behind crate::upstream_from_job_id: the jobs but the last were
\* announced, by the upstreams in turn
AnnouncedJobs == [j \in JobIds |-> IF j < NJob THEN ((j - 1) % NRemote) + 1 ELSE 0]

\* the message loop before the first message: nothing arrived, nothing in
\* hand, nothing sent, the node's mutex D and the upstream's mutex U free,
\* the upstream's task idle
NoLoop ==
    [inbox |-> <<>>, arrived |-> 0, handling |-> {}, log |-> <<>>,
     owner |-> [D |-> "none", U |-> "none"], up |-> 0, opening |-> 0]

ProxyIdle == node = NewNode /\ jobs = AnnouncedJobs /\ px = NoPx /\ lp = NoLoop

\* the record of an operation on the node
PxCall(op, res) == [NoPx EXCEPT !.op = op, !.res = res]

\* the node after an operation that panicked or not
After(self, panic) == IF panic THEN [self EXCEPT !.panicked = TRUE] ELSE self

\* what handle_setup_connection is given by the common routing logic
SetupResults == [tag : {"None", "Err"}, data : {0}] \cup [tag : {"Ok"}, data : DownstreamData]

\* DownstreamMiningNode::handle_setup_connection: result.unwrap().unwrap(),
\* then self.status.pair(data)
HandleSetupConnection ==
    /\ ~node.panicked
    /\ \E result \in SetupResults :
        LET r == IF result.tag = "Ok" THEN Pair(node, result.data)
                 ELSE [panic |-> TRUE, self |-> node]
        IN  /\ node' = After(r.self, r.panic)
            /\ px' = [PxCall("handle_setup_connection", IF r.panic THEN "panic" ELSE "ok")
                         EXCEPT !.data = result.data]
    /\ UNCHANGED <<noise, router, jobs, lp>>

\* DownstreamMiningNode::start: a paired node sends SetupConnectionSuccess
\* and spawns the loop; any other node panics
Start ==
    /\ ~node.panicked /\ ~node.running
    /\ LET s == Send(node, Msg("SetupConnectionSuccess", NoBody))
           panic == ~IsPaired(node) \/ s.res = "panic"
       IN  /\ node' = After([node EXCEPT !.running = ~panic], panic)
           /\ px' = [PxCall("start", IF panic THEN "panic" ELSE "ok")
                        EXCEPT !.down = IF panic THEN NoMessage ELSE s.down]
    /\ UNCHANGED <<noise, router, jobs, lp>>

\* what a miner sends: the downstream messages, a message of the other
\* direction, or a pair that does not decode
FromMiner == DownstreamVariants \cup {"NewMiningJob", Undecodable}

\* the inputs that matter to a message: the result of a hook that is
\* called, the share of a SubmitSharesStandard, the dispatcher it meets and
\* the verdict of a group dispatcher
HookInputs(decoded, routing_logic) ==
    IF HookMatters(decoded, routing_logic) THEN HookResults
    ELSE {[ok |-> FALSE, remote |-> 0]}
ShareInputs(decoded) ==
    IF decoded = "SubmitSharesStandard" THEN Shares
    ELSE {[NoBody EXCEPT !.channel_id = 1, !.job_id = 1]}
DispatcherInputs(decoded) ==
    IF decoded = "SubmitSharesStandard" THEN Dispatchers ELSE {"Group"}
VerdictInputs(decoded, dispatcher) ==
    IF decoded = "SubmitSharesStandard" /\ dispatcher = "Group" THEN Verdicts
    ELSE {"Invalid"}

\* what the dispatcher answered, if handle_submit_shares_standard got as
\* far as asking it
Answer(out, verdict) ==
    IF out.handler = "handle_submit_shares_standard" /\ out.res.val # "panic"
    THEN verdict ELSE "none"

\* the incoming frame: a SubmitSharesStandard carries a share
Incoming(decoded, m) == Msg(decoded, IF decoded = "SubmitSharesStandard" THEN m ELSE NoBody)

\* one turn of the loop of start, receiver.recv().await.unwrap() and
\* next(incoming), or a call of next on a node whose loop is not running
Next_ ==
    /\ ~node.panicked
    /\ IF node.running /\ node.closed
       THEN /\ node' = After(node, TRUE)
            /\ px' = PxCall("recv", "panic")
       ELSE \E decoded \in FromMiner, routing_logic \in RoutingLogics :
            \E hookres \in HookInputs(decoded, routing_logic), m \in ShareInputs(decoded) :
            \E dispatcher \in DispatcherInputs(decoded) :
            \E verdict \in VerdictInputs(decoded, dispatcher), upsend_ok \in BOOLEAN :
            LET r == HandleMessageMining(node, decoded, routing_logic, hookres, m, jobs,
                                         dispatcher, verdict)
                incoming == Incoming(decoded, m)
                n == NextMatch(node, incoming, r.out, upsend_ok)
            IN  /\ (r.out.res.ok /\ r.out.res.val \in {"RelaySameMessage", "RelayNewMessage"})
                       \/ upsend_ok
                /\ node' = After(node, n.res = "panic")
                /\ px' = [PxCall("next", n.res) EXCEPT !.up = n.up, !.down = n.down,
                                                       !.decoded = decoded,
                                                       !.m = incoming.m,
                                                       !.verdict = Answer(r.out, verdict),
                                                       !.out = r.out.res,
                                                       !.hook = r.hook,
                                                       !.hookres = hookres]
    /\ UNCHANGED <<noise, router, jobs, lp>>

\* the channels stored in the node
NumChannels(self) ==
    LET RECURSIVE Sum(_)
        Sum(G) == IF G = {} THEN 0
                  ELSE LET g == CHOOSE x \in G : TRUE
                       IN  Len(self.channels[g]) + Sum(G \ {g})
    IN  Sum(Groups)

\* DownstreamMiningNode::add_channel, called when an upstream opened a
\* channel, on a node that stores fewer than max channels
AddChannelUpTo(max) ==
    /\ ~node.panicked
    /\ NumChannels(node) < max
    /\ \E channel \in DownstreamChannels :
        LET r == AddChannel(node, channel)
        IN  /\ node' = After(r.self, r.panic)
            /\ px' = [PxCall("add_channel", IF r.panic THEN "panic" ELSE "ok")
                         EXCEPT !.m = [NoBody EXCEPT !.channel_id = channel.channel_id]]
    /\ UNCHANGED <<noise, router, jobs, lp>>

\* add_channel among the other operations of the node
AddChannelCall == AddChannelUpTo(MaxChannels)

\* add_channel called again and again, as for a downstream that opens
\* several channels
AddChannels == AddChannelUpTo(MaxAdds)

\* DownstreamMiningNodeStatus::get_channels
GetChannelsCall ==
    /\ ~node.panicked
    /\ LET r == GetChannels(node)
       IN  /\ node' = After(node, r.panic)
           /\ px' = PxCall("get_channels", IF r.panic THEN "panic" ELSE "ok")
    /\ UNCHANGED <<noise, router, jobs, lp>>

\* IsDownstream::get_downstream_mining_data
GetDownstreamMiningDataCall ==
    /\ ~node.panicked
    /\ LET r == GetDownstreamMiningData(node)
       IN  /\ node' = After(node, r.panic)
           /\ px' = [PxCall("get_downstream_mining_data", IF r.panic THEN "panic" ELSE "ok")
                        EXCEPT !.data = r.data]
    /\ UNCHANGED <<noise, router, jobs, lp>>

\* DownstreamMiningNode::send of a frame for the downstream
SendCall ==
    /\ ~node.panicked
    /\ LET s == Send(node, Msg("SetTarget", NoBody))
       IN  /\ node' = After(node, s.res = "panic")
           /\ px' = [PxCall("send", s.res) EXCEPT !.down = s.down]
    /\ UNCHANGED <<noise, router, jobs, lp>>

\* the downstream goes away: its ends of the two channels are dropped
PeerCloses ==
    /\ ~node.panicked /\ ~node.closed
    /\ node' = [node EXCEPT !.closed = TRUE]
    /\ px' = PxCall("close", "ok")
    /\ UNCHANGED <<noise, router, jobs, lp>>

----------------------------------------------------------------------------
(* The message loop of start, by its suspension points and its locks *)

\* what a miner sends in the loop: the two messages the node has handlers for
LoopMessages == {"OpenStandardMiningChannel", "SubmitSharesStandard"}

\* a frame of the loop: its place in the order of arrival and what it
\* will decode to
LoopMessage(seq, decoded) == [seq |-> seq, decoded |-> decoded]

\* a message in hand: where next stands with it (pos), the share it
\* carries once decoded, the upstream the routing hook selected, and the
\* directive once it is known
InHand(msg, pos, up, out) ==
    [seq |-> msg.seq, decoded |-> msg.decoded, m |-> NoBody, pos |-> pos,
     up |-> up, out |-> out]

\* every received message is handed to a task of its own
CanReceiveAlways(l) == TRUE

\* loop { recv().await; next(..).await }: the loop asks for a message only
\* when next has returned for the one before
CanReceive(l) == l.handling = {}

\* safe_lock: the mutex is taken if it is free
Free(mutex) == lp.owner[mutex] = "none"

\* the connection task puts a frame into the channel the node receives from
LoopArrive ==
    /\ lp.arrived < MaxMsgs
    /\ \E decoded \in LoopMessages :
        lp' = [lp EXCEPT !.arrived = @ + 1,
                         !.inbox = Append(@, LoopMessage(lp.arrived + 1, decoded))]
    /\ UNCHANGED <<noise, router, node, jobs, px>>

\* safe_lock(|self_| self_.receiver.clone()), then receiver.recv().await: the
\* channel hands out the frame that arrived first
LoopRecv ==
    /\ node.running /\ ~node.panicked
    /\ CanReceive(lp)
    /\ Free("D")
    /\ lp.inbox # <<>>
    /\ lp' = [lp EXCEPT !.inbox = Tail(@),
                        !.handling = @ \cup {InHand(Head(lp.inbox), "parse", 0, Todo)}]
    /\ UNCHANGED <<noise, router, node, jobs, px>>

\* next, as far as handle_message_mining gets without the handler: the lock
\* that reads the channel type, the decoding, the routing hook
LoopParse ==
    /\ ~node.panicked
    /\ \E t \in lp.handling, routing_logic \in RoutingLogics :
       \E hookres \in HookInputs(t.decoded, routing_logic), m \in ShareInputs(t.decoded) :
        LET r == ParseDownstreamMiningMessages(
                     NodeConn.channel_type, NodeConn.work_selection, t.decoded,
                     routing_logic, hookres, Todo)
            panic == GetDownstreamMiningData(node).panic
            called == r.out.handler # "none"
            body == Incoming(t.decoded, m).m
            t2 == IF called
                  THEN [t EXCEPT !.pos = "handler", !.up = r.out.remote, !.m = body]
                  ELSE [t EXCEPT !.pos = "send", !.out = r.out.res, !.m = body]
        IN  /\ t.pos = "parse"
            /\ Free("D")
            /\ node' = After(node, panic)
            /\ lp' = IF panic THEN lp
                     ELSE [lp EXCEPT !.handling = (@ \ {t}) \cup {t2}]
    /\ UNCHANGED <<noise, router, jobs, px>>

\* handle_submit_shares_standard finds the group and the upstream of the
\* share and goes on to remote.safe_lock
ReachesRemote(self, t) ==
    /\ t.decoded = "SubmitSharesStandard"
    /\ self.channel_id_to_group_id[t.m.channel_id] # 0
    /\ UpstreamFromJobId(jobs, t.m.job_id) # 0

\* self_mutex.safe_lock(|s| s.handle_...(m)): the node's mutex is taken and
\* the handler runs, to its end or to remote.safe_lock, where it keeps the
\* node's mutex and asks for the upstream's
LoopHandler ==
    /\ ~node.panicked
    /\ \E t \in lp.handling :
        LET out == NodeHandler(node, t.decoded, t.up, t.m, jobs, "Group", "Invalid")
        IN  /\ t.pos = "handler"
            /\ Free("D")
            /\ IF ReachesRemote(node, t)
               THEN /\ lp' = [lp EXCEPT !.owner.D = "loop",
                                        !.handling = (@ \ {t}) \cup {[t EXCEPT !.pos = "remote"]}]
                    /\ node' = node
               ELSE /\ lp' = [lp EXCEPT !.handling =
                                 (@ \ {t}) \cup {[t EXCEPT !.pos = "send", !.out = out]}]
                    /\ node' = After(node, out.val = "panic")
    /\ UNCHANGED <<noise, router, jobs, px>>

\* remote.safe_lock(|r| ...): the upstream's mutex is taken inside the
\* node's, the dispatcher of the group decides, both are given back
LoopRemote ==
    /\ ~node.panicked
    /\ \E t \in lp.handling, dispatcher \in Dispatchers :
       \E verdict \in VerdictInputs(t.decoded, dispatcher) :
        LET out == HandleSubmitSharesStandard(node, t.m, jobs, dispatcher, verdict)
        IN  /\ t.pos = "remote"
            /\ Free("U")
            /\ lp' = [lp EXCEPT !.owner.D = "none",
                                !.handling = (@ \ {t}) \cup {[t EXCEPT !.pos = "send", !.out = out]}]
            /\ node' = After(node, out.val = "panic")
    /\ UNCHANGED <<noise, router, jobs, px>>

\* the match on next_message_to_send and the send it awaits; send to the
\* downstream takes the node's mutex for the sender
LoopSend ==
    /\ ~node.panicked
    /\ \E t \in lp.handling, upsend_ok \in BOOLEAN :
        LET n == NextMatch(node, Incoming(t.decoded, t.m), [res |-> t.out], upsend_ok)
        IN  /\ t.pos = "send"
            /\ (t.out.ok /\ t.out.val \in {"RelaySameMessage", "RelayNewMessage"}) \/ upsend_ok
            /\ (t.out.ok /\ t.out.val = "Respond") => Free("D")
            /\ node' = After(node, n.res = "panic")
            /\ lp' = IF n.res = "panic" THEN lp
                     ELSE [lp EXCEPT !.handling = @ \ {t}, !.log = Append(@, t.seq)]
    /\ UNCHANGED <<noise, router, jobs, px>>

\* the upstream's task got an OpenStandardMiningChannelSuccess for this
\* downstream: handle_message_mining of the upstream takes the upstream's
\* mutex for the handler and hands it the downstream
UpOpenSuccess ==
    /\ node.running /\ ~node.panicked
    /\ lp.up = 0
    /\ Free("U")
    /\ \E channel \in DownstreamChannels :
        /\ node.channel_id_to_group_id[channel.channel_id] = 0
        /\ lp' = [lp EXCEPT !.owner.U = "up", !.up = channel.channel_id,
                            !.opening = channel.group_id]
    /\ UNCHANGED <<noise, router, node, jobs, px>>

\* the handler of the upstream adds the channel to the downstream's
\* registry: it takes the downstream's mutex inside the upstream's
UpAddChannel ==
    /\ ~node.panicked
    /\ lp.up # 0
    /\ Free("D")
    /\ LET r == AddChannel(node, [channel_id |-> lp.up, group_id |-> lp.opening])
       IN  node' = After(r.self, r.panic)
    /\ lp' = [lp EXCEPT !.owner.U = "none", !.up = 0, !.opening = 0]
    /\ UNCHANGED <<noise, router, jobs, px>>

----------------------------------------------------------------------------
(* State after construction *)

\* the responder's own static keypair: keypairs are interchangeable, so the
\* responder's is the first and the certificate's subject ranges over all
OwnStaticKey == CHOOSE k \in StaticKeys : \A j \in StaticKeys : k <= j

\* the arguments of the constructors, kept to state the claims: the
\* certificate and what it was issued from, the message and the static key
\* the responder was built with, the authority key the initiator was built
\* with
CertRecord(kp, pub_k, duration, now, presented, static, trusted) ==
    [msg |-> NewCert(kp, pub_k, duration, now), by |-> kp, pubkey |-> pub_k,
     duration |-> duration, issue |-> now,
     presented |-> presented, static |-> static, trusted |-> trusted]

\* a 76-byte message whose signature length field is not 64
Malformed(msg) == [msg EXCEPT !.signature_len = SIGNATURE_LEN - 1]

NoCall == [op |-> "none", ep |-> "none", stage |-> 0, in |-> NoMsg, now |-> 0,
           res |-> Done, after |-> 0, n |-> 0, pos |-> 0, broken |-> FALSE,
           plain |-> NoPlain, buflen |-> 0, idx |-> 0, tampered |-> FALSE,
           inorder |-> FALSE, ok |-> FALSE, out |-> NoPlain,
           poisoned |-> FALSE, sn |-> 0, rn |-> 0, hint |-> 0]

InitCommon ==
    /\ net1 = NoMsg
    /\ net2 = NoMsg
    /\ calls = [ep \in Endpoints |-> 0]
    /\ tm = [ep \in Endpoints |-> NoTransport]
    /\ wire = [ep \in Endpoints |-> <<>>]
    /\ sent = [ep \in Endpoints |-> <<>>]
    /\ rcv = [ep \in Endpoints |-> [next |-> 1, clean |-> TRUE, good |-> 0,
                                     poisoned |-> FALSE]]
    /\ last = NoCall

\* Initiator::new, Authority::new_cert, Responder::new
InitNew ==
    \E a \in Authorities, kp \in Authorities, pub_k \in StaticKeys,
       d \in Durations, bad \in BOOLEAN :
        LET s == OwnStaticKey
            msg == NewCert(kp, pub_k, d, IssueTime)
            presented == IF bad THEN Malformed(msg) ELSE msg
        IN  /\ ini = InitiatorNew(a)
            /\ cert = CertRecord(kp, pub_k, d, IssueTime, presented, s, a)
            /\ resp = ResponderNew(s, presented)
            /\ InitCommon

\* Initiator::new, Responder::from_authority_kp
InitFromAuthorityKp ==
    \E a \in Authorities, kp \in Authorities, d \in Durations :
        LET s == OwnStaticKey
        IN  /\ ini = InitiatorNew(a)
            /\ resp = ResponderFromAuthorityKp(kp, d, s, IssueTime)
            /\ cert = CertRecord(kp, s, d, IssueTime, resp.signature_noise_message, s, a)
            /\ InitCommon

Init == (InitNew \/ InitFromAuthorityKp) /\ RouterIdle /\ ProxyIdle

\* the construction of test::perform_handshake: the initiator trusts the
\* authority that certified the responder's own static key, for the longest
\* duration
InitTransport ==
    /\ Init
    /\ cert.by = 1 /\ cert.trusted = 1
    /\ cert.pubkey = cert.static
    /\ cert.duration = MaxDuration
    /\ cert.presented = cert.msg

----------------------------------------------------------------------------
(* Handshake actions *)

\* an Initiator or Responder that into_handshake_state has taken by value:
\* nothing of it can be used any more
Moved(initiator) ==
    IF initiator
    THEN [stage |-> 0, handshake_state |-> NewHandshakeState(TRUE, "none", 0),
          authority_public_key |-> 0, consumed |-> TRUE]
    ELSE [stage |-> 0, handshake_state |-> NewHandshakeState(FALSE, "none", 0),
          signature_noise_message |-> NoCert, consumed |-> TRUE]

StepCall(ep, self, in_msg, now, r) ==
    [NoCall EXCEPT !.op = "step", !.ep = ep, !.stage = self.stage, !.in = in_msg,
                   !.now = now, !.res = r.res, !.after = r.self.stage,
                   !.n = calls[ep] + 1, !.pos = self.handshake_state.pos,
                   !.broken = self.handshake_state.broken]

Emitted(res, old) ==
    IF res.tag \in {"ExpectReply", "NoMoreReply"} THEN res.msg ELSE old

\* the messages the network can hand to the initiator: at stage 1 also the
\* second flight, as sent or altered on the way
InitiatorInputs ==
    {NoMsg, Garbage}
    \cup (IF ini.stage = 1 /\ net2 # NoMsg THEN {net2, Tamper(net2)} ELSE {})

\* the messages the network can hand to the responder: at stage 0 also the
\* first flight, as sent or with another ephemeral key
ResponderInputs ==
    {NoMsg, Garbage}
    \cup (IF resp.stage = 0 THEN {Flight1("ex")} ELSE {})
    \cup (IF resp.stage = 0 /\ net1 # NoMsg THEN {net1} ELSE {})

\* a call of Initiator::step
IStep ==
    /\ ~ini.consumed
    /\ calls["I"] < MaxCalls
    /\ \E in_msg \in InitiatorInputs, now \in Times, keep \in BOOLEAN :
        LET reads == ini.stage = 1 /\ in_msg # NoMsg
            readok == reads /\ HsReadMessage(ini.handshake_state, in_msg, BUFFER_LEN, keep).ok
            r == InitiatorStep(ini, in_msg, now, keep)
        IN  /\ readok \/ now = 0
            /\ (reads /\ ~readok) \/ keep
            /\ ini' = r.self
            /\ last' = StepCall("I", ini, in_msg, now, r)
            /\ net1' = Emitted(r.res, net1)
    /\ calls' = [calls EXCEPT !["I"] = @ + 1]
    /\ UNCHANGED <<resp, cert, net2, tm, wire, sent, rcv, conn, routed, node, jobs, px, lp>>

\* a call of Responder::step
RStep ==
    /\ ~resp.consumed
    /\ calls["R"] < MaxCalls
    /\ \E in_msg \in ResponderInputs :
        LET r == ResponderStep(resp, in_msg)
        IN  /\ resp' = r.self
            /\ last' = StepCall("R", resp, in_msg, 0, r)
            /\ net2' = Emitted(r.res, net2)
    /\ calls' = [calls EXCEPT !["R"] = @ + 1]
    /\ UNCHANGED <<ini, cert, net1, tm, wire, sent, rcv, conn, routed, node, jobs, px, lp>>

\* initiator.into_handshake_state().into_transport_mode(): consumes the
\* Initiator
IIntoTransport ==
    /\ ~ini.consumed
    /\ ini' = Moved(TRUE)
    /\ calls' = [calls EXCEPT !["I"] = 0]
    /\ tm' = [tm EXCEPT !["I"] = IntoTransportMode(ini.handshake_state)]
    /\ last' = [NoCall EXCEPT !.op = "into", !.ep = "I", !.stage = ini.stage,
                              !.n = calls["I"],
                              !.ok = IntoTransportMode(ini.handshake_state).state = "ok"]
    /\ UNCHANGED <<resp, cert, net1, net2, wire, sent, rcv, conn, routed, node, jobs, px, lp>>

\* responder.into_handshake_state().into_transport_mode(): consumes the
\* Responder
RIntoTransport ==
    /\ ~resp.consumed
    /\ resp' = Moved(FALSE)
    /\ calls' = [calls EXCEPT !["R"] = 0]
    /\ tm' = [tm EXCEPT !["R"] = IntoTransportMode(resp.handshake_state)]
    /\ last' = [NoCall EXCEPT !.op = "into", !.ep = "R", !.stage = resp.stage,
                              !.n = calls["R"],
                              !.ok = IntoTransportMode(resp.handshake_state).state = "ok"]
    /\ UNCHANGED <<ini, cert, net1, net2, wire, sent, rcv, conn, routed, node, jobs, px, lp>>

----------------------------------------------------------------------------
(* Transport actions *)

\* a call of TransportMode::write on endpoint ep, with an output buffer of
\* the hinted size or one byte short of it
Write(ep) ==
    /\ tm[ep].state = "ok"
    /\ Len(sent["I"]) + Len(sent["R"]) < MaxFrames
    /\ \E m \in Plaintexts, short \in BOOLEAN :
        LET buflen == SizeHintEncrypt(m.len) - (IF short THEN 1 ELSE 0)
            w == TransportWrite(tm[ep], m, buflen)
        IN  /\ tm' = [tm EXCEPT ![ep] = w.self]
            /\ wire' = IF w.ok THEN [wire EXCEPT ![ep] = Append(@, w.frame)] ELSE wire
            /\ sent' = IF w.ok THEN [sent EXCEPT ![ep] = Append(@, m)] ELSE sent
            /\ last' = [NoCall EXCEPT !.op = "write", !.ep = ep, !.plain = m,
                                      !.buflen = buflen, !.ok = w.ok,
                                      !.res = IF w.ok THEN Ok ELSE Err,
                                      !.n = tm[ep].sn,
                                      !.sn = tm[ep].sn, !.rn = tm[ep].rn]
    /\ UNCHANGED <<ini, resp, cert, net1, net2, calls, rcv, conn, routed, node, jobs, px, lp>>

\* a call of TransportMode::read on endpoint ep with the idx-th frame its
\* peer wrote, as written or altered on the way, and an output buffer of the
\* hinted size or one byte short of it
Read(ep) ==
    /\ tm[ep].state = "ok"
    /\ tm[ep].rn < MaxReads
    /\ \E idx \in 1..Len(wire[Peer(ep)]), tampered \in BOOLEAN, short \in BOOLEAN,
          keep \in BOOLEAN :
        LET frame == wire[Peer(ep)][idx]
            hint == SizeHintDecrypt(frame.len)
            buflen == hint - (IF short THEN 1 ELSE 0)
            inorder == rcv[ep].clean /\ idx = rcv[ep].next /\ ~tampered /\ ~short
            tagfails == /\ ReadLengthsOk(frame, buflen)
                        /\ ~TagMatches(tm[ep], frame, tampered)
            r == TransportRead(tm[ep], frame, tampered, buflen, keep)
        IN  /\ buflen >= 0
            /\ keep \/ tagfails
            /\ tm' = [tm EXCEPT ![ep] = r.self]
            /\ rcv' = [rcv EXCEPT ![ep] =
                          [next |-> IF inorder THEN @.next + 1 ELSE @.next,
                           clean |-> @.clean /\ inorder,
                           good |-> IF r.ok THEN @.good + 1 ELSE @.good,
                           poisoned |-> @.poisoned \/ tagfails]]
            /\ last' = [NoCall EXCEPT !.op = "read", !.ep = ep, !.idx = idx,
                                      !.tampered = tampered, !.buflen = buflen,
                                      !.inorder = inorder, !.ok = r.ok,
                                      !.res = IF r.ok THEN Ok ELSE Err,
                                      !.out = r.out, !.n = tm[ep].rn,
                                      !.poisoned = rcv[ep].poisoned,
                                      !.sn = tm[ep].sn, !.rn = tm[ep].rn]
    /\ UNCHANGED <<ini, resp, cert, net1, net2, calls, wire, sent, conn, routed, node, jobs, px, lp>>

----------------------------------------------------------------------------
(* Size hints *)

\* the lengths the size hints are asked for: the smallest and the largest
Lengths == (0..MaxLen) \cup {USIZE_MAX - k : k \in 0..MaxLen}

\* a call of TransportMode::size_hint_encrypt(n), in a build with overflow
\* checks (the addition panics when it does not fit) or without (it wraps)
SizeHintEncryptCall ==
    /\ \E n \in Lengths, checks \in BOOLEAN :
        LET panics == checks /\ AddOverflows(n, SNOW_TAGLEN)
        IN  /\ checks => AddOverflows(n, SNOW_TAGLEN)
            /\ last' = [NoCall EXCEPT !.op = "size_hint_encrypt", !.n = n,
                                      !.ok = ~panics,
                                      !.hint = IF panics THEN None ELSE SizeHintEncrypt(n)]
    /\ UNCHANGED <<ini, resp, cert, net1, net2, calls, tm, wire, sent, rcv, conn, routed, node, jobs, px, lp>>

\* a call of TransportMode::size_hint_decrypt(n)
SizeHintDecryptCall ==
    /\ \E n \in Lengths :
        last' = [NoCall EXCEPT !.op = "size_hint_decrypt", !.n = n,
                               !.ok = SizeHintDecrypt(n) # None,
                               !.hint = SizeHintDecrypt(n)]
    /\ UNCHANGED <<ini, resp, cert, net1, net2, calls, tm, wire, sent, rcv, conn, routed, node, jobs, px, lp>>

\* size_hint_decrypt(size_hint_encrypt(n)), as test_send_message sizes its
\* two buffers
SizeHintRoundTrip ==
    /\ \E n \in Lengths, checks \in BOOLEAN :
        LET panics == checks /\ AddOverflows(n, SNOW_TAGLEN)
        IN  /\ checks => AddOverflows(n, SNOW_TAGLEN)
            /\ last' = [NoCall EXCEPT !.op = "size_hint_round_trip", !.n = n,
                                      !.ok = ~panics,
                                      !.hint = IF panics THEN None
                                               ELSE SizeHintDecrypt(SizeHintEncrypt(n))]
    /\ UNCHANGED <<ini, resp, cert, net1, net2, calls, tm, wire, sent, rcv, conn, routed, node, jobs, px, lp>>

----------------------------------------------------------------------------
(* Specifications *)

\* the handshake between one Initiator and one Responder
Handshake == IStep \/ RStep \/ IIntoTransport \/ RIntoTransport

Spec == Init /\ [][Handshake]_vars

\* the handshake of S1 followed by frames in both directions
Next ==
    \/ IStep \/ RStep \/ IIntoTransport \/ RIntoTransport
    \/ \E ep \in Endpoints : Write(ep)
    \/ \E ep \in Endpoints : Read(ep)

SpecTransport == InitTransport /\ [][Next]_vars

\* the two size hints, called on their own
NextSizeHint == SizeHintEncryptCall \/ SizeHintDecryptCall \/ SizeHintRoundTrip

SpecSizeHint == InitTransport /\ [][NextSizeHint]_vars

\* a mining connection of any channel type, with or without work selection,
\* and the messages it receives from either side
InitRouter ==
    /\ InitNew \/ InitFromAuthorityKp
    /\ cert.by = 1 /\ cert.trusted = 1
    /\ cert.pubkey = cert.static
    /\ cert.duration = MaxDuration
    /\ cert.presented = cert.msg
    /\ conn \in [channel_type : SupportedChannelTypes, work_selection : BOOLEAN]
    /\ routed = NoRouted
    /\ ProxyIdle

NextRouter == FromDownstream \/ FromUpstream

SpecRouter == InitRouter /\ [][NextRouter]_vars

\* a downstream node of the proxy as listen_for_downstream_mining makes it
InitProxy ==
    /\ InitNew
    /\ cert.by = 1 /\ cert.trusted = 1
    /\ cert.pubkey = cert.static
    /\ cert.duration = MaxDuration
    /\ cert.presented = cert.msg
    /\ conn = NodeConn
    /\ routed = NoRouted
    /\ ProxyIdle

NextProxy ==
    \/ HandleSetupConnection
    \/ Start
    \/ Next_
    \/ AddChannelCall
    \/ GetChannelsCall
    \/ GetDownstreamMiningDataCall
    \/ SendCall
    \/ PeerCloses

SpecProxy == InitProxy /\ [][NextProxy]_vars

\* the registry of a downstream node: the node is paired and channels are
\* added to it
NextRegistry == HandleSetupConnection \/ AddChannels

SpecRegistry == InitProxy /\ [][NextRegistry]_vars

\* listen_for_downstream_mining: the first message of a connection is
\* handled as its SetupConnection, then the node is started
ListenSetup == ~node.running /\ HandleSetupConnection

\* the message loop of one downstream and the task of its upstream
NextLoop ==
    \/ ListenSetup
    \/ Start
    \/ LoopArrive
    \/ LoopRecv
    \/ LoopParse
    \/ LoopHandler
    \/ LoopRemote
    \/ LoopSend
    \/ UpOpenSuccess
    \/ UpAddChannel

SpecLoop == InitProxy /\ [][NextLoop]_vars

----------------------------------------------------------------------------
(* Properties *)

IStepped == last.op = "step" /\ last.ep = "I"
RStepped == last.op = "step" /\ last.ep = "R"

\* the message handed to the last step is a second flight that answers the
\* initiator's own first flight and arrived as the responder wrote it
GenuineFlight2(m) == m.type = "eess" /\ ~m.tampered /\ m.re = "ei"

\* the last step of the initiator was at stage 1 and read_message accepted
\* its input, so that the certificate was looked at
ReachedVerify ==
    /\ IStepped /\ last.stage = 1
    /\ GenuineFlight2(last.in) /\ last.pos = 1 /\ ~last.broken

\* the certificate the responder presents is the one the authority issued
PresentsIssuedCert == cert.presented = cert.msg

InWindow(now) == cert.issue <= now /\ now < cert.issue + cert.duration

C2_ValidExactlyInWindow ==
    (/\ ReachedVerify
     /\ PresentsIssuedCert
     /\ cert.by = ini.authority_public_key
     /\ cert.pubkey = last.in.s)
    => (last.res.tag = "Done" <=> InWindow(last.now))

C2_Witness ==
    /\ ReachedVerify /\ PresentsIssuedCert
    /\ cert.by = ini.authority_public_key /\ cert.pubkey = last.in.s
    /\ cert.duration = 1 /\ last.now = cert.issue
    /\ last.res.tag = "Done"

\* the initiator trusts authority A and the certificate is signed by
\* another authority B, for the responder's real static key, and presented
\* inside its validity window
WrongAuthorityCase ==
    /\ ReachedVerify
    /\ PresentsIssuedCert
    /\ cert.by # ini.authority_public_key
    /\ cert.pubkey = last.in.s
    /\ InWindow(last.now)

WrongStaticKeyCase ==
    /\ ReachedVerify
    /\ PresentsIssuedCert
    /\ cert.by = ini.authority_public_key
    /\ cert.pubkey # last.in.s
    /\ InWindow(last.now)

\* C4: when the certified static key differs from the remote static key of
\* the handshake, the stage-1 step fails and the initiator does not reach
\* stage 2, although the signature is the configured authority's and the
\* certificate is inside its validity window.
C4_WrongStaticKeyFails ==
    /\ WrongStaticKeyCase => (last.res = Err /\ last.after = 1 /\ ini.stage = 1)
    /\ ini.stage = 2 => cert.presented.signature.pubkey = ini.handshake_state.rs

C4_Witness == WrongStaticKeyCase /\ last.res = Err

C7_FirstStepExpectsReply ==
    (IStepped /\ last.stage = 0) =>
        /\ last.res = ExpectReply(Flight1(ini.handshake_state.e))
        /\ last.res.msg.len <= SNOW_PSKLEN + SNOW_TAGLEN
        /\ net1 = last.res.msg
        /\ last.after = 1 /\ ini.stage = 1

C7_Witness ==
    /\ IStepped /\ last.stage = 0 /\ last.in = NoMsg /\ last.n = 1
    /\ last.res.tag = "ExpectReply" /\ ini.stage = 1

\* C8: the step of a responder at stage 0 on a first flight returns
\* NoMoreReply carrying the second flight (its ephemeral key, its static key
\* and its signature message, BUFFER_LEN bytes) and moves it to stage 1; its
\* step at stage 1 returns Done with no message and moves it to stage 2; no
\* step of the responder returns ExpectReply.
C8_ResponderSteps ==
    /\ (RStepped /\ last.stage = 0 /\ last.in.type = "e") =>
          /\ last.res = NoMoreReply(Flight2(resp.handshake_state.e, last.in.e,
                                            resp.handshake_state.s,
                                            resp.signature_noise_message))
          /\ last.res.msg.len = BUFFER_LEN
          /\ net2 = last.res.msg
          /\ last.after = 1 /\ resp.stage = 1
    /\ (RStepped /\ last.stage = 1) =>
          last.res = Done /\ last.after = 2 /\ resp.stage = 2
    /\ RStepped => last.res.tag # "ExpectReply"

C8_Witness ==
    /\ RStepped /\ last.stage = 1 /\ last.in = NoMsg /\ last.n = 2
    /\ last.res = Done /\ net2.re = "ei"

\* the initiator trusts the authority that signed the certificate, which
\* certifies the static key the responder holds
HonestSetup ==
    /\ PresentsIssuedCert
    /\ cert.by = cert.trusted
    /\ cert.pubkey = cert.static

\* C9: with an initiator configured with authority A and a responder
\* holding a currently valid certificate signed by A for its own static key,
\* initiator.step(None) returns ExpectReply, responder.step(first flight)
\* returns NoMoreReply, initiator.step(second flight) returns Done, so the
\* initiator is at stage 2 after two steps; the initiator can then be
\* converted into transport state, and the responder already after its first
\* step.
C9_HonestExchangeCompletes ==
    HonestSetup =>
        /\ (IStepped /\ last.n = 1 /\ last.in = NoMsg) =>
              last.res.tag = "ExpectReply"
        /\ (RStepped /\ last.n = 1 /\ net1 # NoMsg /\ last.in = net1) =>
              last.res.tag = "NoMoreReply"
        /\ (IStepped /\ last.n = 2 /\ net2 # NoMsg /\ last.in = net2
                /\ net2.re = net1.e /\ InWindow(last.now)) =>
              last.res = Done /\ ini.stage = 2
        /\ (last.op = "into" /\ last.ep = "I" /\ last.stage = 2) =>
              last.ok /\ tm["I"].state = "ok"
        /\ (last.op = "into" /\ last.ep = "R" /\ last.stage >= 1) =>
              last.ok /\ tm["R"].state = "ok"

\* the responder was converted after its first step, then the initiator
\* after its second
C9_Witness ==
    /\ HonestSetup
    /\ last.op = "into" /\ last.ep = "I" /\ last.stage = 2 /\ last.n = 2
    /\ tm["I"].state = "ok" /\ tm["R"].state = "ok"
    /\ tm["I"].session = tm["R"].session
    /\ net2.re = net1.e

\* C10: between two endpoints converted from a finished handshake, write
\* succeeds for every plaintext that fits a frame when given a buffer of the
\* hinted size, and when the frames one endpoint wrote are handed to its
\* peer unaltered, in the order written and with buffers of the hinted size,
\* every read succeeds and returns the plaintext that was written.
C10_RoundTripInOrder ==
    /\ (last.op = "write" /\ last.plain.len + SNOW_TAGLEN <= MAX_MESSAGE_SIZE
            /\ last.buflen = SizeHintEncrypt(last.plain.len)) => last.ok
    /\ (last.op = "read" /\ last.inorder) =>
          /\ last.ok
          /\ last.out = sent[Peer(last.ep)][last.idx]
          /\ last.buflen = last.out.len

C10_Witness ==
    /\ last.op = "read" /\ last.inorder /\ last.idx = 2 /\ last.ok
    /\ last.out # sent[Peer(last.ep)][1]
    /\ last.out = sent[Peer(last.ep)][2]

\* the frame handed to the last read is the one its nonce is due for, the
\* output buffer has the hinted size: only an alteration can make it fail
DueFrame ==
    /\ last.op = "read"
    /\ last.idx = last.rn + 1
    /\ last.buflen = SizeHintDecrypt(wire[Peer(last.ep)][last.idx].len)

C12_PoisonedAfterAuthFailure ==
    (last.op = "read" /\ last.poisoned) => ~last.ok

\* a read of an unaltered frame succeeded on a transport state on which an
\* earlier read had failed on the tag
C12_Witness ==
    /\ last.op = "read" /\ last.poisoned
    /\ ~last.tampered /\ last.ok
    /\ last.out = sent[Peer(last.ep)][last.idx]

\* the last read was handed, unaltered and with a buffer of the hinted size,
\* the frame written right after the one the receive nonce is due for: the
\* two frames arrive in swapped order and this is the first to arrive
SwappedFrame ==
    /\ last.op = "read" /\ ~last.tampered
    /\ last.idx = last.rn + 2
    /\ last.buflen = SizeHintDecrypt(wire[Peer(last.ep)][last.idx].len)

C14_NoncesCountFrames ==
    /\ \A ep \in Endpoints :
          tm[ep].state = "ok" =>
              /\ tm[ep].sn = Len(sent[ep])
              /\ tm[ep].rn = rcv[ep].good
    /\ last.op = "write" =>
          /\ tm[last.ep].sn = last.sn + (IF last.ok THEN 1 ELSE 0)
          /\ tm[last.ep].rn = last.rn
    /\ last.op = "read" =>
          /\ tm[last.ep].rn = last.rn + (IF last.ok THEN 1 ELSE 0)
          /\ tm[last.ep].sn = last.sn

\* a read that failed on the tag has advanced the receive nonce
C14_Witness ==
    /\ last.op = "read" /\ ~last.ok
    /\ ReadLengthsOk(wire[Peer(last.ep)][last.idx], last.buflen)
    /\ tm[last.ep].rn = last.rn + 1
    /\ tm[last.ep].rn > rcv[last.ep].good

\* C15 as stated: for every n size_hint_encrypt(n) = n + TAG_LEN; for n >=
\* TAG_LEN size_hint_decrypt(n) = n - TAG_LEN and for n < TAG_LEN it is None;
\* size_hint_decrypt(size_hint_encrypt(n)) = n for every n.
C15_SizeHintsForEveryLength ==
    /\ last.op = "size_hint_encrypt" =>
          (last.ok /\ last.hint - SNOW_TAGLEN = last.n)
    /\ (last.op = "size_hint_decrypt" /\ last.n >= SNOW_TAGLEN) =>
          last.hint = last.n - SNOW_TAGLEN
    /\ (last.op = "size_hint_decrypt" /\ last.n < SNOW_TAGLEN) =>
          last.hint = None
    /\ last.op = "size_hint_round_trip" => (last.ok /\ last.hint = last.n)

\* C15 as amended: for every n with n + TAG_LEN <= usize::MAX
\* size_hint_encrypt(n) = n + TAG_LEN and
\* size_hint_decrypt(size_hint_encrypt(n)) = n; for every n >= TAG_LEN
\* size_hint_decrypt(n) = n - TAG_LEN and for every n < TAG_LEN it is None.
C15_SizeHints ==
    /\ (last.op = "size_hint_encrypt" /\ ~AddOverflows(last.n, SNOW_TAGLEN)) =>
          (last.ok /\ last.hint - SNOW_TAGLEN = last.n)
    /\ (last.op = "size_hint_decrypt" /\ last.n >= SNOW_TAGLEN) =>
          last.hint = last.n - SNOW_TAGLEN
    /\ (last.op = "size_hint_decrypt" /\ last.n < SNOW_TAGLEN) =>
          last.hint = None
    /\ (last.op = "size_hint_round_trip" /\ ~AddOverflows(last.n, SNOW_TAGLEN)) =>
          (last.ok /\ last.hint = last.n)

C15_Witness ==
    /\ last.op = "size_hint_round_trip"
    /\ last.n = USIZE_MAX - SNOW_TAGLEN
    /\ last.hint = last.n

----------------------------------------------------------------------------
(* Mining message parsers: claims                                          *)

\* the last call handled message m coming from side from
Handled(from, m) == routed.from = from /\ routed.decoded = m

\* the parser itself answered Err(Error::UnexpectedMessage), calling no handler
RouterUnexpected == routed.out = UnexpectedMessage

\* the last call ended in a call of handler h
DispatchedTo(h) == routed.out.handler = h

\* the standard-channel message of the last call and its handler
StandardCase(from, m, h) ==
    Handled(from, m) =>
        /\ DispatchedTo(h) <=> conn.channel_type \in {"Standard", "Group", "GroupAndExtended"}
        /\ conn.channel_type = "Extended" => RouterUnexpected

\* C16: OpenStandardMiningChannel and SubmitSharesStandard from downstream and
\* OpenStandardMiningChannelSuccess from upstream reach their own handler
\* exactly when the channel type is Standard, Group or GroupAndExtended; on
\* an Extended connection the parser returns UnexpectedMessage and calls no
\* handler.
C16_StandardMessages ==
    /\ StandardCase("downstream", "OpenStandardMiningChannel",
                    "handle_open_standard_mining_channel")
    /\ StandardCase("downstream", "SubmitSharesStandard", "handle_submit_shares_standard")
    /\ StandardCase("upstream", "OpenStandardMiningChannelSuccess",
                    "handle_open_standard_mining_channel_success")

\* an OpenStandardMiningChannel on an Extended connection whose routing hook
\* was called and selected an upstream
C16_Witness ==
    /\ Handled("downstream", "OpenStandardMiningChannel")
    /\ conn.channel_type = "Extended"
    /\ routed.hook = "on_open_standard_channel"
    /\ routed.hookres.ok
    /\ RouterUnexpected

\* the extended-channel message of the last call and its handler
ExtendedCase(from, m, h) ==
    Handled(from, m) =>
        /\ DispatchedTo(h) <=> conn.channel_type \in {"Extended", "GroupAndExtended"}
        /\ conn.channel_type \in {"Standard", "Group"} => RouterUnexpected

\* C17: OpenExtendedMiningChannel and SubmitSharesExtended from downstream and
\* OpenExtendedMiningChannelSuccess from upstream reach their own handler
\* exactly when the channel type is Extended or GroupAndExtended; on a
\* Standard or Group connection the parser returns UnexpectedMessage and
\* calls no handler.
C17_ExtendedMessages ==
    /\ ExtendedCase("downstream", "OpenExtendedMiningChannel",
                    "handle_open_extended_mining_channel")
    /\ ExtendedCase("downstream", "SubmitSharesExtended", "handle_submit_shares_extended")
    /\ ExtendedCase("upstream", "OpenExtendedMiningChannelSuccess",
                    "handle_open_extended_mining_channel_success")

\* an OpenExtendedMiningChannel refused on a Standard connection
C17_Witness ==
    /\ Handled("downstream", "OpenExtendedMiningChannel")
    /\ conn.channel_type = "Standard"
    /\ RouterUnexpected

\* the admissibility condition of the three custom-job messages
CustomJobAdmissible ==
    /\ conn.work_selection
    /\ conn.channel_type \in {"Extended", "Group", "GroupAndExtended"}

\* the custom-job message of the last call and its handler
CustomJobCase(from, m, h) ==
    Handled(from, m) =>
        /\ DispatchedTo(h) <=> CustomJobAdmissible
        /\ ~CustomJobAdmissible => RouterUnexpected

\* C18: SetCustomMiningJob from downstream and SetCustomMiningJobSuccess and
\* SetCustomMiningJobError from upstream reach their handler if and only if
\* work selection is enabled and the channel type is Extended, Group or
\* GroupAndExtended; otherwise the parser returns UnexpectedMessage and calls
\* no handler. The condition is the same in both directions.
C18_CustomJobMessages ==
    /\ CustomJobCase("downstream", "SetCustomMiningJob", "handle_set_custom_mining_job")
    /\ CustomJobCase("upstream", "SetCustomMiningJobSuccess",
                     "handle_set_custom_mining_job_success")
    /\ CustomJobCase("upstream", "SetCustomMiningJobError",
                     "handle_set_custom_mining_job_error")

\* a SetCustomMiningJobSuccess refused on a Group connection without work
\* selection
C18_Witness ==
    /\ Handled("upstream", "SetCustomMiningJobSuccess")
    /\ conn.channel_type = "Group"
    /\ ~conn.work_selection
    /\ RouterUnexpected

\* the upstream parser calls a handler for message m on this connection
Admissible(m) ==
    ParseUpstreamMiningMessages(conn.channel_type, conn.work_selection, m, "None",
                                [ok |-> FALSE, remote |-> 0],
                                [ok |-> TRUE, val |-> "None"]).out.handler # "none"

\* C19: from upstream, NewMiningJob reaches its handler only on a Standard
\* connection and yields UnexpectedMessage on Extended, Group and
\* GroupAndExtended ones; NewExtendedMiningJob reaches its handler on
\* Extended, Group and GroupAndExtended connections and yields
\* UnexpectedMessage on a Standard one; for every channel type exactly one of
\* the two is admissible.
C19_JobAnnouncements ==
    /\ Handled("upstream", "NewMiningJob") =>
        /\ DispatchedTo("handle_new_mining_job") <=> conn.channel_type = "Standard"
        /\ conn.channel_type \in {"Extended", "Group", "GroupAndExtended"}
               => RouterUnexpected
    /\ Handled("upstream", "NewExtendedMiningJob") =>
        /\ DispatchedTo("handle_new_extended_mining_job")
               <=> conn.channel_type \in {"Extended", "Group", "GroupAndExtended"}
        /\ conn.channel_type = "Standard" => RouterUnexpected
    /\ routed.from = "upstream" =>
           Admissible("NewMiningJob") # Admissible("NewExtendedMiningJob")

\* a NewExtendedMiningJob handled on a Group connection
C19_Witness ==
    /\ Handled("upstream", "NewExtendedMiningJob")
    /\ conn.channel_type = "Group"
    /\ DispatchedTo("handle_new_extended_mining_job")
    /\ ~Admissible("NewMiningJob")

\* C20: SetGroupChannel from upstream is admissible only on Group and
\* GroupAndExtended connections, where the default handler yields the
\* directive None; on Standard and Extended connections it yields
\* UnexpectedMessage.
C20_SetGroupChannel ==
    Handled("upstream", "SetGroupChannel") =>
        /\ conn.channel_type \in {"Group", "GroupAndExtended"} =>
               /\ DispatchedTo("handle_set_group_channel")
               /\ routed.out.res = [ok |-> TRUE, val |-> "None"]
        /\ conn.channel_type \in {"Standard", "Extended"} => RouterUnexpected

\* a SetGroupChannel answered with the directive None on a GroupAndExtended
\* connection
C20_Witness ==
    /\ Handled("upstream", "SetGroupChannel")
    /\ conn.channel_type = "GroupAndExtended"
    /\ routed.out.res = [ok |-> TRUE, val |-> "None"]

\* the message of the last call reached handler h, whatever the connection
AlwaysCase(from, m, h) == Handled(from, m) => DispatchedTo(h) /\ ~RouterUnexpected

\* C21: UpdateChannel from downstream, and SetNewPrevHash, SetTarget,
\* SetExtranoncePrefix, OpenMiningChannelError, UpdateChannelError,
\* SubmitSharesSuccess, SubmitSharesError, CloseChannel and Reconnect from
\* upstream reach their own handler for every channel type and both values
\* of the work-selection flag; the parser never answers UnexpectedMessage
\* for them itself.
C21_ChannelIndependentMessages ==
    /\ AlwaysCase("downstream", "UpdateChannel", "handle_update_channel")
    /\ AlwaysCase("upstream", "SetNewPrevHash", "handle_set_new_prev_hash")
    /\ AlwaysCase("upstream", "SetTarget", "handle_set_target")
    /\ AlwaysCase("upstream", "SetExtranoncePrefix", "handle_set_extranonce_prefix")
    /\ AlwaysCase("upstream", "OpenMiningChannelError", "handle_open_mining_channel_error")
    /\ AlwaysCase("upstream", "UpdateChannelError", "handle_update_channel_error")
    /\ AlwaysCase("upstream", "SubmitSharesSuccess", "handle_submit_shares_success")
    /\ AlwaysCase("upstream", "SubmitSharesError", "handle_submit_shares_error")
    /\ AlwaysCase("upstream", "CloseChannel", "handle_close_channel")
    /\ AlwaysCase("upstream", "Reconnect", "handle_reconnect")

\* a Reconnect handled on a Standard connection without work selection
C21_Witness ==
    /\ Handled("upstream", "Reconnect")
    /\ conn.channel_type = "Standard"
    /\ ~conn.work_selection
    /\ DispatchedTo("handle_reconnect")

\* Tables 1 and 2: the channel types that admit message m from side from
TableAdmits(from, m) ==
    LET ct == conn.channel_type
        nonStandard == {"Extended", "Group", "GroupAndExtended"}
        standard == {"Standard", "Group", "GroupAndExtended"}
        extended == {"Extended", "GroupAndExtended"}
    IN  CASE from = "downstream" /\ m \in {"OpenStandardMiningChannel", "SubmitSharesStandard"}
                -> ct \in standard
          [] from = "downstream" /\ m \in {"OpenExtendedMiningChannel", "SubmitSharesExtended"}
                -> ct \in extended
          [] from = "downstream" /\ m = "UpdateChannel" -> TRUE
          [] from = "downstream" /\ m = "SetCustomMiningJob"
                -> ct \in nonStandard /\ conn.work_selection
          [] from = "upstream" /\ m = "OpenStandardMiningChannelSuccess" -> ct \in standard
          [] from = "upstream" /\ m = "OpenExtendedMiningChannelSuccess" -> ct \in extended
          [] from = "upstream" /\ m = "NewMiningJob" -> ct = "Standard"
          [] from = "upstream" /\ m = "NewExtendedMiningJob" -> ct \in nonStandard
          [] from = "upstream" /\ m = "SetGroupChannel" -> ct \in {"Group", "GroupAndExtended"}
          [] from = "upstream" /\ m \in {"SetCustomMiningJobSuccess", "SetCustomMiningJobError"}
                -> ct \in nonStandard /\ conn.work_selection
          [] from = "upstream" /\ m \in {"SetNewPrevHash", "SetTarget", "SetExtranoncePrefix",
                                         "OpenMiningChannelError", "UpdateChannelError",
                                         "SubmitSharesSuccess", "SubmitSharesError",
                                         "CloseChannel", "Reconnect"} -> TRUE
          [] OTHER -> FALSE

\* the last call handled a message of the tables that its connection does
\* not admit
Inadmissible ==
    /\ routed.from \in {"downstream", "upstream"}
    /\ routed.decoded # Undecodable
    /\ ~TableAdmits(routed.from, routed.decoded)

\* C22: for every inadmissible pair of channel type and message the parser
\* returns UnexpectedMessage, calls no handler and has no other effect: the
\* routing hook is not consulted, in particular not for
\* OpenStandardMiningChannel or OpenStandardMiningChannelSuccess on an
\* Extended connection.
C22_InadmissibleHasNoEffect ==
    Inadmissible => RouterUnexpected /\ routed.hook = "none"

\* an OpenStandardMiningChannelSuccess on an Extended connection for which
\* the routing hook was called
C22_Witness ==
    /\ Handled("upstream", "OpenStandardMiningChannelSuccess")
    /\ conn.channel_type = "Extended"
    /\ routed.hook = "on_open_standard_channel_success"

\* C23: a pair that does not decode into a Mining variant makes
\* handle_message_mining return the decode error, BadMessage, in both
\* directions and for every channel type, without calling a handler or a
\* routing hook.
C23_DecodeErrorReturned ==
    routed.from \in {"downstream", "upstream"} /\ routed.decoded = Undecodable =>
        /\ routed.out.res = [ok |-> FALSE, val |-> "BadMessage"]
        /\ routed.out.handler = "none"
        /\ routed.hook = "none"

\* an undecodable pair from upstream refused although routing is Proxy
C23_Witness ==
    /\ Handled("upstream", Undecodable)
    /\ routed.routing_logic = "Proxy"
    /\ routed.out.res = [ok |-> FALSE, val |-> "BadMessage"]

----------------------------------------------------------------------------
(* DownstreamMiningNode: claims                                            *)

\* the last operation was next on a SubmitSharesStandard
ShareHandled == px.op = "next" /\ px.decoded = "SubmitSharesStandard"

\* the last operation sent something to an upstream
SentUpstream == px.up # NoUp

\* the share of the last operation as the dispatcher of the job's upstream
\* and the channel's group rewrote it
Rewritten ==
    [px.m EXCEPT !.dispatcher = <<jobs[px.m.job_id],
                                  node.channel_id_to_group_id[px.m.channel_id]>>]

\* C24: a SubmitSharesStandard that the proxy forwards upstream goes out as
\* RelayNewMessage(peer, SubmitSharesStandard(rewritten)), where peer is
\* upstream_from_job_id(job_id) and rewritten is the share returned as Valid
\* by the dispatcher of that peer for the group of the channel; it goes to
\* no other upstream and never unchanged.
C24_ShareGoesToItsUpstream ==
    ShareHandled /\ SentUpstream =>
        /\ jobs[px.m.job_id] # 0
        /\ px.out = RelayNewMessage(jobs[px.m.job_id],
                                    Msg("SubmitSharesStandard", Rewritten))
        /\ px.up = [remote |-> jobs[px.m.job_id],
                    message |-> Msg("SubmitSharesStandard", Rewritten)]
        /\ px.up.message # Msg("SubmitSharesStandard", px.m)

\* a share for a job of the second upstream relayed to it
C24_Witness ==
    /\ ShareHandled
    /\ jobs[px.m.job_id] = 2
    /\ px.up.remote = 2
    /\ px.out.val = "RelayNewMessage"

\* the error the dispatcher of the job's upstream and the channel's group
\* returned for the share of the last operation
Rejected ==
    [Rewritten EXCEPT !.job_id = 0, !.error_code = "invalid"]

\* C25: when the job dispatcher answers a SubmitSharesStandard with
\* Invalid(error), the handler returns Respond(SubmitSharesError(error)),
\* which next sends to the submitting downstream, and nothing is sent to any
\* upstream.
C25_InvalidShareAnswered ==
    ShareHandled /\ px.verdict = "Invalid" =>
        /\ px.out = Respond(Msg("SubmitSharesError", Rejected))
        /\ ~SentUpstream
        /\ px.res = "ok" => px.down = Msg("SubmitSharesError", Rejected)

\* an invalid share answered to a downstream that is still there
C25_Witness ==
    /\ ShareHandled /\ px.verdict = "Invalid"
    /\ px.res = "ok"
    /\ px.down.type = "SubmitSharesError"
    /\ px.up = NoUp

\* the share of the last operation names a channel the node does not know,
\* or a job no upstream announced
LookupMisses ==
    \/ node.channel_id_to_group_id[px.m.channel_id] = 0
    \/ jobs[px.m.job_id] = 0

\* C26: a SubmitSharesStandard whose channel_id has no entry in
\* channel_id_to_group_id, or whose job_id has no upstream, makes the
\* handler return an error value, surfaced as UnexpectedMessage; nothing is
\* forwarded upstream and the session keeps running.
C26_LookupMissIsAnError ==
    ShareHandled /\ node.status = "Paired" /\ LookupMisses =>
        /\ ~px.out.ok /\ px.out.val = "UnexpectedMessage"
        /\ ~SentUpstream
        /\ px.res # "panic" /\ ~node.panicked

\* a share for an unknown channel on a paired, running node ended the task
C26_Witness ==
    /\ ShareHandled /\ node.status = "Paired" /\ node.running
    /\ node.channel_id_to_group_id[px.m.channel_id] = 0
    /\ px.out = Todo
    /\ node.panicked

\* one step of the node's status
StatusStep ==
    /\ node.status = "Paired" =>
           node'.status = "Paired" /\ node'.data = node.data
    /\ node.status = "Initializing" /\ node'.status # "Initializing" =>
           /\ node'.status = "Paired"
           /\ node'.channels = NoChannels
           /\ px'.op = "handle_setup_connection" /\ px'.res = "ok"
           /\ node'.data = px'.data /\ px'.data \in DownstreamData

\* C27: the status of a downstream node starts as Initializing; its only
\* transition is from Initializing to Paired(data, no channels), made by a
\* successful SetupConnection exchange; once Paired it never returns to
\* Initializing and its CommonDownstreamData never changes.
C27_StatusLifecycle ==
    node.status = "Initializing" /\ [][StatusStep]_vars

\* a paired node with a channel that refused a second SetupConnection
C27_Witness ==
    /\ node.status = "Paired"
    /\ NumChannels(node) > 0
    /\ px.op = "handle_setup_connection" /\ px.res = "panic"
    /\ px.data # node.data /\ px.data \in DownstreamData

\* the operations that need a paired node
NeedsPairing ==
    {"add_channel", "get_channels", "get_downstream_mining_data", "next", "start"}

\* a step that runs such an operation on a node that is Initializing
UnpairedStep ==
    node.status = "Initializing" /\ px'.op \in NeedsPairing =>
        /\ px'.res = "err"
        /\ node' = node

\* C28: adding a channel, reading the channel table, reading the downstream
\* mining data, handling a mining message and starting the message loop
\* return an error when the node is still Initializing; they neither abort
\* nor change state.
C28_UnpairedIsAnError == [][UnpairedStep]_vars

\* add_channel on an Initializing node wrote channel_id_to_group_id and
\* then panicked
C28_Witness ==
    /\ node.status = "Initializing"
    /\ px.op = "add_channel" /\ px.res = "panic"
    /\ node.panicked
    /\ node.channel_id_to_group_id # NewNode.channel_id_to_group_id

\* handling the last message of the loop yielded UnexpectedMessage
YieldedUnexpected ==
    /\ px.op = "next" /\ node.running
    /\ ~px.out.ok /\ px.out.val = "UnexpectedMessage"

\* C29: when handling a downstream message yields UnexpectedMessage the
\* error is reported and the session continues: the loop is still there to
\* receive and process the messages that arrive afterwards.
C29_SessionSurvivesUnexpected ==
    YieldedUnexpected => px.res = "err" /\ ~node.panicked

\* a SetCustomMiningJob, inadmissible without work selection, ended the
\* loop of a running node
C29_Witness ==
    /\ YieldedUnexpected
    /\ px.decoded = "SetCustomMiningJob"
    /\ px.res = "panic" /\ node.panicked

\* the last operation tried to send a frame to a downstream whose channel
\* is closed
SentToClosed ==
    /\ node.closed
    /\ \/ px.op = "send"
       \/ px.op = "next" /\ px.out.ok /\ px.out.val = "Respond"

\* C30: a send to a peer whose channel is closed returns the error
\* PeerClosed to its caller; it neither aborts nor hangs.
C30_SendReturnsPeerClosed ==
    SentToClosed => px.res = "err" /\ ~node.panicked

\* send on a running node whose downstream went away panicked
C30_Witness ==
    /\ node.closed /\ node.running
    /\ px.op = "send" /\ px.res = "panic"
    /\ node.panicked

\* ---------------------------------------------------------------------
\* The stage counter of the handshake
\* ---------------------------------------------------------------------

\* the results with which a step returns Ok
StepSucceeded(res) == res.tag \in {"ExpectReply", "NoMoreReply", "Done"}

\* what one step of the program does to the stage of endpoint `old`,
\* which becomes `new`: a step that was a call of step() and returned Ok
\* advanced it by one, every other step left it alone.  An endpoint that
\* into_handshake_state() consumed has no stage any more.
StageFollows(ep, old, new) ==
    new.consumed \/
    /\ new.stage >= old.stage
    /\ IF last'.op = "step" /\ last'.ep = ep /\ calls'[ep] = calls[ep] + 1
       THEN /\ StepSucceeded(last'.res) => new.stage = old.stage + 1
            /\ last'.res = Err => new.stage = old.stage
            /\ last'.stage = old.stage /\ last'.after = new.stage
       ELSE new.stage = old.stage

\* C35: for both Initiator and Responder the stage is always 0, 1 or 2,
\* never decreases, grows by exactly one on each successful step, and is
\* left unchanged by a step that returns an error.
C35_StageCounter ==
    /\ [](ini.stage \in 0..2 /\ resp.stage \in 0..2)
    /\ [][StageFollows("I", ini, ini') /\ StageFollows("R", resp, resp')]_vars

\* the initiator was handed a tampered second flight at stage 1: the step
\* returned an error and the stage is still 1, and the responder, already
\* finished, has been stepped again without leaving stage 2
C35_Witness ==
    /\ last.op = "step" /\ last.ep = "I" /\ last.stage = 1
    /\ last.in # NoMsg /\ last.res = Err
    /\ ini.stage = 1
    /\ resp.stage = 2 /\ calls["R"] = 3

\* ---------------------------------------------------------------------
\* The columns of the admissibility tables
\* ---------------------------------------------------------------------

\* the parser that handled the last call, run on the same message and the
\* same routing results over a connection of channel type ct
ParsedOn(ct) ==
    IF routed.from = "downstream"
    THEN ParseDownstreamMiningMessages(ct, conn.work_selection, routed.decoded,
                                       routed.routing_logic, routed.hookres, routed.hres)
    ELSE ParseUpstreamMiningMessages(ct, conn.work_selection, routed.decoded,
                                     routed.routing_logic, routed.hookres, routed.hres)

\* the message of the last call is dispatched to a handler on a connection
\* of channel type ct
DispatchedOn(ct) == ParsedOn(ct).out.handler # "none"

\* C36: in both tables the GroupAndExtended column is the union of the
\* Group and Extended columns: whatever the message and the work-selection
\* flag, a handler is called on a GroupAndExtended connection exactly when
\* one would be called on a Group or on an Extended connection.
C36_GroupAndExtendedIsUnion ==
    routed.from # "none" =>
        /\ DispatchedOn("GroupAndExtended")
               <=> (DispatchedOn("Group") \/ DispatchedOn("Extended"))
        /\ conn.channel_type = "GroupAndExtended" =>
               (routed.out.handler # "none"
                    <=> (DispatchedOn("Group") \/ DispatchedOn("Extended")))

\* a SetGroupChannel, which only the Group column admits, reached its
\* handler on a GroupAndExtended connection
C36_Witness ==
    /\ conn.channel_type = "GroupAndExtended"
    /\ routed.from = "upstream" /\ routed.decoded = "SetGroupChannel"
    /\ routed.out.handler = "handle_set_group_channel"
    /\ DispatchedOn("Group") /\ ~DispatchedOn("Extended")

\* ---------------------------------------------------------------------
\* Messages arriving from the wrong direction
\* ---------------------------------------------------------------------

\* the last call handed a parser a decoded message of the other direction
WrongDirection ==
    \/ routed.from = "downstream" /\ routed.decoded \in UpstreamVariants
    \/ routed.from = "upstream" /\ routed.decoded \in DownstreamVariants

\* C37: a correctly decoded mining message from the wrong direction is
\* always rejected: the parser of downstream messages returns
\* UnexpectedMessage for every variant other than the six a downstream
\* sends, the parser of upstream messages returns it for each of those six,
\* whatever the channel type and the work-selection flag, and no handler
\* and no routing hook is called.
C37_WrongDirectionRejected ==
    WrongDirection =>
        /\ routed.out.res = [ok |-> FALSE, val |-> "UnexpectedMessage"]
        /\ routed.out.handler = "none"
        /\ routed.hook = "none"

\* a SubmitSharesStandard handed to the parser of upstream messages on a
\* connection of the most permissive kind was rejected
C37_Witness ==
    /\ conn.channel_type = "GroupAndExtended" /\ conn.work_selection
    /\ routed.from = "upstream" /\ routed.decoded = "SubmitSharesStandard"
    /\ routed.routing_logic = "Proxy"
    /\ routed.out.res.val = "UnexpectedMessage"

\* ---------------------------------------------------------------------
\* OpenStandardMiningChannel on the proxy's downstream node
\* ---------------------------------------------------------------------

\* the last operation was next on an OpenStandardMiningChannel for which
\* the routing logic's hook on_open_standard_channel was called
OpenStandardRouted ==
    /\ px.op = "next" /\ px.decoded = "OpenStandardMiningChannel"
    /\ px.hook = "on_open_standard_channel"

\* the answer to it: the directive with the upstream the hook selected,
\* under which next relays the incoming message to that upstream and to no
\* one else, or the hook's error, under which nothing is relayed
OpenStandardAnswer ==
    OpenStandardRouted =>
        IF px.hookres.ok
        THEN /\ px.out = RelaySameMessage(px.hookres.remote)
             /\ px.down = NoMessage
             /\ px.up \in {NoUp, [remote |-> px.hookres.remote,
                                  message |-> Msg("OpenStandardMiningChannel", NoBody)]}
             /\ px.res = "ok" => px.up # NoUp
        ELSE /\ px.out = RoutingError.res
             /\ px.up = NoUp /\ px.down = NoMessage

\* a step that handled an OpenStandardMiningChannel left the registry and
\* the status of the node as they were
OpenStandardFrame ==
    (px'.op = "next" /\ px'.decoded = "OpenStandardMiningChannel") =>
        /\ node'.channel_id_to_group_id = node.channel_id_to_group_id
        /\ node'.channels = node.channels
        /\ node'.status = node.status /\ node'.data = node.data

\* C38: on the proxy's downstream node (Group, no work selection) an
\* OpenStandardMiningChannel is answered with RelaySameMessage(u), u being
\* exactly the upstream the hook on_open_standard_channel selected; an
\* error of the routing logic is returned and nothing is relayed; neither
\* channel_id_to_group_id nor the status of the node changes.
C38_OpenStandardRelayedToSelected ==
    /\ []OpenStandardAnswer
    /\ [][OpenStandardFrame]_vars

\* the hook selected the second upstream and the message went there, on a
\* node that has a channel registered
C38_Witness ==
    /\ OpenStandardRouted
    /\ px.hookres = [ok |-> TRUE, remote |-> 2]
    /\ px.out = RelaySameMessage(2)
    /\ px.up.remote = 2 /\ px.res = "ok"
    /\ NumChannels(node) = 1

\* ---------------------------------------------------------------------
\* The registry of channels
\* ---------------------------------------------------------------------

\* this step is a call of add_channel on a Paired node
AddsToPaired == px'.op = "add_channel" /\ IsPaired(node) /\ ~node.panicked

\* the step registered channel c and nothing else
Registered(c) ==
    /\ node'.channel_id_to_group_id[c.channel_id] = c.group_id
    /\ \A k \in ChannelIds \ {c.channel_id} :
           node'.channel_id_to_group_id[k] = node.channel_id_to_group_id[k]
    /\ node'.channels[c.group_id] = Append(node.channels[c.group_id], c)
    /\ SubSeq(node'.channels[c.group_id], 1, Len(node.channels[c.group_id]))
           = node.channels[c.group_id]
    /\ \A g \in Groups \ {c.group_id} : node'.channels[g] = node.channels[g]

\* C33: on a Paired node add_channel(c) sets
\* channel_id_to_group_id[c.channel_id] to c.group_id and appends c to the
\* bucket of c.group_id, making the bucket if there was none; every other
\* mapping and every other bucket is unchanged, and the channels already in
\* the bucket keep their order.
C33_AddChannelRegisters ==
    [][AddsToPaired =>
           /\ px'.res = "ok" /\ ~node'.panicked
           /\ \E c \in DownstreamChannels :
                  c.channel_id = px'.m.channel_id /\ Registered(c)]_vars

\* three channels were added: the first bucket holds channel 2 and then
\* channel 1, in the order they came, the second bucket was made for a
\* third one
C33_Witness ==
    /\ IsPaired(node) /\ px.op = "add_channel" /\ px.res = "ok"
    /\ Len(node.channels[1]) = 2
    /\ node.channels[1][1].channel_id = 2 /\ node.channels[1][2].channel_id = 1
    /\ Len(node.channels[2]) = 1

\* the number of places in the buckets that hold a channel with id c
Occurrences(c) ==
    Cardinality({<<g, i>> \in Groups \X (1..MaxAdds + 1) :
                    i <= Len(node.channels[g]) /\ node.channels[g][i].channel_id = c})

\* C34: after any sequence of add_channel calls on a Paired node the two
\* tables agree: a channel_id is a key of channel_id_to_group_id exactly
\* when a bucket holds a channel with that id, every channel in the bucket
\* of group g is mapped to g, and no channel_id occurs in two buckets or
\* twice in a bucket, also when a channel_id is added again.
C34_TablesAgree ==
    IsPaired(node) =>
        /\ \A c \in ChannelIds :
               /\ node.channel_id_to_group_id[c] # 0 <=> Occurrences(c) > 0
               /\ Occurrences(c) <= 1
        /\ \A g \in Groups : \A i \in 1..Len(node.channels[g]) :
               node.channel_id_to_group_id[node.channels[g][i].channel_id] = g

\* channel 1 was added under group 1 and again under group 2: it sits in
\* both buckets and the map knows only the second
C34_Witness ==
    /\ IsPaired(node) /\ ~node.panicked
    /\ node.channels[1] = <<[channel_id |-> 1, group_id |-> 1]>>
    /\ node.channels[2] = <<[channel_id |-> 1, group_id |-> 2]>>
    /\ node.channel_id_to_group_id[1] = 2

\* ---------------------------------------------------------------------
\* The message loop: order of processing, locks
\* ---------------------------------------------------------------------

\* C31: the messages of one downstream connection are processed strictly
\* in the order they arrived: message k+1 is not taken in hand before
\* message k is finished (parsed, routed, its directive sent), so the
\* directives go out in the order of the messages that caused them.
C31_ArrivalOrder ==
    /\ Cardinality(lp.handling) <= 1
    /\ \A t \in lp.handling : t.seq = Len(lp.log) + 1
    /\ \A i \in 1..Len(lp.log) : lp.log[i] = i
    /\ \A i \in 1..Len(lp.inbox) : lp.inbox[i].seq = lp.arrived - Len(lp.inbox) + i

\* the second message arrived while the first was in its handler, and was
\* taken in hand, answered and finished after it
C31_Witness ==
    /\ lp.log = <<1, 2>>
    /\ lp.handling = {} /\ lp.inbox = <<>>
    /\ ~node.panicked

\* the loop's task holds mutex x
LoopHolds(x) == lp.owner[x] = "loop"

\* the loop's task is at a suspension point: recv().await or the send
\* awaited by next
LoopAwaits == \A t \in lp.handling : t.pos \in {"parse", "send"}

\* the loop's task keeps the node's mutex and waits for the upstream's,
\* which the upstream's task keeps while it waits for the node's
LockedBothWays ==
    /\ \E t \in lp.handling : t.pos = "remote"
    /\ LoopHolds("D")
    /\ lp.owner.U = "up" /\ lp.up # 0

\* C32: no mutex is held at a suspension point, every lock of start, next
\* and send is given back inside a critical section that waits for
\* nothing, and no task keeps the downstream's mutex while it waits for an
\* upstream's mutex that another task keeps while waiting for the
\* downstream's.
C32_NoLockHeldWhileWaiting ==
    /\ LoopAwaits => ~LoopHolds("D") /\ ~LoopHolds("U")
    /\ ~LockedBothWays

\* a share whose channel and job are known is in its handler, which keeps
\* the node's mutex and asks for the upstream's; the upstream's task keeps
\* that one and asks for the node's to add a channel: neither goes on
C32_Witness ==
    /\ LockedBothWays
    /\ \E t \in lp.handling : t.decoded = "SubmitSharesStandard" /\ ReachesRemote(node, t)
    /\ ~ENABLED LoopRemote /\ ~ENABLED UpAddChannel

====
